---- MODULE Spec2Model ----
\* Reconciliation engine of the vault-namespace-controller
\* (pkg/controller/namespace_controller.go) against the Vault namespace
\* Gateway interface (pkg/vault/client.go, type Client).
\*
\* Strings are sequences of one-character strings, so that trimming, prefix
\* and substring tests are computed and not assumed.
EXTENDS Integers, Sequences, FiniteSets, TLC

\* ---------------------------------------------------------------- bounds
\* saturation value of the per-name history counters
MaxCount == 2
\* longest list of include patterns and of exclude patterns tried
MaxPatterns == 2
\* number of goroutines that share the vaultClient
MaxWorkers == 2

\* ------------------------------------------------------ program constants
\* ctrl.Result{RequeueAfter: 30 * time.Second}, in seconds
BackoffSeconds == 30

\* --------------------------------------------------------- string helpers
\* strings.TrimRight(s, "/")
RECURSIVE TrimRight(_)
TrimRight(s) ==
  IF s # <<>> /\ s[Len(s)] = "/" THEN TrimRight(SubSeq(s, 1, Len(s) - 1)) ELSE s

\* TrimLeft with a seeded fault: nothing is stripped.
TrimLeft_Keep(s) == s

\* strings.TrimLeft(s, "/")
RECURSIVE TrimLeft(_)
TrimLeft(s) ==
  IF s # <<>> /\ s[1] = "/" THEN TrimLeft(Tail(s)) ELSE s

\* fmt.Sprintf(format, arg) for formats whose only verb is %s, one operand:
\* the first %s takes the operand, a later %s has none left, and an operand
\* no verb consumed is reported at the end.
RECURSIVE SprintfFrom(_, _, _)
SprintfFrom(format, arg, used) ==
  IF format = <<>>
    THEN IF used THEN <<>> ELSE <<"%!(EXTRA string=">> \o arg \o <<")">>
    ELSE IF Len(format) >= 2 /\ format[1] = "%" /\ format[2] = "s"
      THEN (IF used THEN <<"%!s(MISSING)">> ELSE arg)
             \o SprintfFrom(SubSeq(format, 3, Len(format)), arg, TRUE)
      ELSE <<format[1]>> \o SprintfFrom(Tail(format), arg, used)

Sprintf(format, arg) == SprintfFrom(format, arg, FALSE)

\* ------------------------------------------------------- pattern matching
\* A compiled pattern of the form  [^] literal [.*] [$] : anchS and anchE say
\* whether the literal is tied to the start / the end of the name (a trailing
\* ".*" leaves the end free); bad marks a pattern regexp fails to compile.
Pat(anchS, lit, anchE) == [anchS |-> anchS, lit |-> lit, anchE |-> anchE, bad |-> FALSE]

\* a pattern regexp cannot compile: "["
BadPat == [anchS |-> FALSE, lit |-> <<"[">>, anchE |-> FALSE, bad |-> TRUE]

\* regexp.MatchString(pattern, name): (matched, err); a pattern that does not
\* compile gives (false, err)
MatchString(p, name) ==
  [match |-> /\ ~p.bad
             /\ \E i \in 1..(Len(name) + 1) :
                  /\ i + Len(p.lit) - 1 <= Len(name)
                  /\ SubSeq(name, i, i + Len(p.lit) - 1) = p.lit
                  /\ (p.anchS => i = 1)
                  /\ (p.anchE => i + Len(p.lit) - 1 = Len(name)),
   err |-> p.bad]

\* matchesAnyPattern with a seeded fault: only the first pattern is tried.
matchesAnyPattern_FirstOnly(name, patterns) ==
  patterns # <<>> /\ MatchString(patterns[1], name).match

\* matchesAnyPattern with a seeded fault: the evaluation stops with false at
\* the first pattern that does not compile.
RECURSIVE matchesAnyPattern_AbortOnError(_, _)
matchesAnyPattern_AbortOnError(name, patterns) ==
  IF patterns = <<>> THEN FALSE
  ELSE IF MatchString(patterns[1], name).err THEN FALSE
  ELSE IF MatchString(patterns[1], name).match THEN TRUE
  ELSE matchesAnyPattern_AbortOnError(name, Tail(patterns))

\* the loop over the patterns: the first match returns true, the error of
\* MatchString is dropped (match, _ := ...)
RECURSIVE matchesAnyPattern(_, _)
matchesAnyPattern(name, patterns) ==
  IF patterns = <<>> THEN FALSE
  ELSE IF MatchString(patterns[1], name).match THEN TRUE
  ELSE matchesAnyPattern(name, Tail(patterns))

\* systemPatterns with a seeded fault: the "$" anchors are missing.
systemPatterns_NoEndAnchor ==
  << Pat(TRUE, <<"k","u","b","e","-">>, FALSE),
     Pat(TRUE, <<"o","p","e","n","s","h","i","f","t","-">>, FALSE),
     Pat(TRUE, <<"o","p","e","n","s","h","i","f","t">>, FALSE),
     Pat(TRUE, <<"d","e","f","a","u","l","t">>, FALSE) >>

\* "^kube-.*", "^openshift-.*", "^openshift$", "^default$"
systemPatterns ==
  << Pat(TRUE, <<"k","u","b","e","-">>, FALSE),
     Pat(TRUE, <<"o","p","e","n","s","h","i","f","t","-">>, FALSE),
     Pat(TRUE, <<"o","p","e","n","s","h","i","f","t">>, TRUE),
     Pat(TRUE, <<"d","e","f","a","u","l","t">>, TRUE) >>

\* shouldSyncNamespace with a seeded fault: the exclude patterns are tried
\* before the system patterns.
shouldSyncNamespace_ExcludeFirst(c, namespaceName) ==
  IF matchesAnyPattern(namespaceName, c.ExcludeNamespaces)
    THEN FALSE
  ELSE IF matchesAnyPattern(namespaceName, systemPatterns)
    THEN matchesAnyPattern(namespaceName, c.IncludeNamespaces)
  ELSE IF Len(c.IncludeNamespaces) > 0
    THEN matchesAnyPattern(namespaceName, c.IncludeNamespaces)
  ELSE TRUE

shouldSyncNamespace(c, namespaceName) ==
  IF matchesAnyPattern(namespaceName, systemPatterns)
    THEN matchesAnyPattern(namespaceName, c.IncludeNamespaces)
  ELSE IF matchesAnyPattern(namespaceName, c.ExcludeNamespaces)
    THEN FALSE
  ELSE IF Len(c.IncludeNamespaces) > 0
    THEN matchesAnyPattern(namespaceName, c.IncludeNamespaces)
  ELSE TRUE

\* formatVaultNamespacePath with a seeded fault: the leading '/' of the
\* formatted name is stripped with or without a root.
formatVaultNamespacePath_AlwaysTrim(c, namespaceName) ==
  LET formatted == IF c.NamespaceFormat # <<>>
                     THEN Sprintf(c.NamespaceFormat, namespaceName)
                     ELSE namespaceName
  IN IF c.NamespaceRoot # <<>>
       THEN TrimRight(c.NamespaceRoot) \o <<"/">> \o TrimLeft(formatted)
       ELSE TrimLeft(formatted)

\* formatVaultNamespacePath with a seeded fault: the root keeps its trailing
\* '/'.
formatVaultNamespacePath_KeepRootSlash(c, namespaceName) ==
  LET formatted == IF c.NamespaceFormat # <<>>
                     THEN Sprintf(c.NamespaceFormat, namespaceName)
                     ELSE namespaceName
  IN IF c.NamespaceRoot # <<>>
       THEN c.NamespaceRoot \o <<"/">> \o TrimLeft(formatted)
       ELSE formatted

formatVaultNamespacePath(c, namespaceName) ==
  LET formatted == IF c.NamespaceFormat # <<>>
                     THEN Sprintf(c.NamespaceFormat, namespaceName)
                     ELSE namespaceName
  IN IF c.NamespaceRoot # <<>>
       THEN TrimRight(c.NamespaceRoot) \o <<"/">> \o TrimLeft(formatted)
       ELSE formatted

\* ------------------------------------------------------------ error values
\* An error value: chain is the set of sentinels errors.Is finds in it, cause
\* the text of the underlying error (formatted with %v, so not in the chain).
NilError == [kind |-> "nil", chain |-> {}, cause |-> "none"]

ErrNamespaceCreation == "ErrNamespaceCreation"
ErrNamespaceDeletion == "ErrNamespaceDeletion"
ErrNamespaceCheck == "ErrNamespaceCheck"
Sentinels == {ErrNamespaceCreation, ErrNamespaceDeletion, ErrNamespaceCheck}

\* fmt.Errorf("%w: %v", sentinel, err)
Wrap(sentinel, cause) == [kind |-> "wrapped", chain |-> {sentinel}, cause |-> cause]

\* errors.Is(e, target)
ErrorsIs(e, target) == target \in e.chain

\* the error r.Get returns when the cluster API fails (not a NotFound)
ApiError == [kind |-> "api", chain |-> {}, cause |-> "apiError"]
\* the error a failed Gateway call returns
VaultError == "vault error"

\* ctrl.Result{RequeueAfter: d}, error
Result(requeueAfter, err) == [requeueAfter |-> requeueAfter, err |-> err]
NoResult == [requeueAfter |-> 0 - 1, err |-> NilError]

\* ----------------------------------------------------------- configuration
\* "kube-.*", "^app$"
PatKubeAny == Pat(FALSE, <<"k","u","b","e","-">>, FALSE)
PatApp == Pat(TRUE, <<"a","p","p">>, TRUE)

FmtK8s == <<"k","8","s","-","%","s">>
FmtPlain == <<"%","s">>
RootAdmin == <<"/","a","d","m","i","n","/">>

ControllerConfig(inc, exc, fmt, root, del, interval) ==
  [IncludeNamespaces |-> inc, ExcludeNamespaces |-> exc, NamespaceFormat |-> fmt,
   NamespaceRoot |-> root, DeleteVaultNamespaces |-> del, ReconcileInterval |-> interval]

\* the configurations the engine is constructed with
Configs ==
  { ControllerConfig(<<>>, <<>>, FmtK8s, <<>>, TRUE, 0),
    ControllerConfig(<<PatKubeAny, PatApp>>, <<>>, FmtPlain, RootAdmin, TRUE, 300),
    ControllerConfig(<<>>, <<>>, FmtPlain, <<>>, FALSE, 300) }

\* cluster namespace names, in the order a List returns them
NsApp == <<"a","p","p">>
NsKube == <<"k","u","b","e","-","s","y","s","t","e","m">>
AllNames == <<NsApp, NsKube>>
Names == {AllNames[i] : i \in 1..Len(AllNames)}

\* -------------------------------------------------------------- Gateway
\* The backend addresses a namespace by its path without leading and
\* trailing '/' (splitNamespacePath: strings.Trim(namespacePath, "/")).
GwKey(path) == TrimLeft(TrimRight(path))

\* the state of the backend is the set of keys of the namespaces that exist
GwExists(v, path) == GwKey(path) \in v
GwCreate(v, path) == v \cup {GwKey(path)}
GwDelete(v, path) == v \ {GwKey(path)}

\* -------------------------------------------------------------------- state
VARIABLES
  cfg,       \* r.Config, fixed at construction
  cluster,   \* the cluster namespaces that exist (what r.Get / r.List read)
  vault,     \* the backend namespaces that exist (keys, see GwKey)
  healthy,   \* FALSE while calls to the Gateway and the cluster API may fail
  pending,   \* pending[n]: the scheduler holds a request for name n
  pc,        \* pc[n]: position of the invocation of Reconcile for name n
  obs,       \* obs[n]: what r.Get observed in the current invocation
  calls,     \* calls[n]: the Gateway calls of the current invocation, in order
  result,    \* result[n]: (ctrl.Result, error) the invocation returned
  focus,     \* the name whose runs are recorded in run (Nobody: none is)
  run,       \* history of the current run of like invocations of focus
  ctx,       \* ctx[n]: the context of the invocation for n, "expired" once its
             \* deadline has passed during a Gateway call
  app,       \* an application of one of the pure functions to (cfg, app.name)
  client,    \* the api.Client inside vaultClient: its current namespace
  ex         \* ex[w]: the call worker w has under way on the vaultClient

vars == <<cfg, cluster, vault, healthy, pending, pc, obs, calls, result, focus, run,
          ctx, app, client, ex>>

\* what the reconciliation engine leaves alone
aux == <<app, client, ex>>

\* no pure function is being applied
NoApp == [fn |-> "none", name |-> <<>>, outBool |-> FALSE, outPath |-> <<>>]

\* the api.Client before NewClient has set a namespace
NoClient == [namespace |-> <<>>, initial |-> <<>>]

\* the goroutines that call the vaultClient
Workers == 1..MaxWorkers

\* what a request on the api.Client came back with: kind tells what
\* (secret, err) is, status is the HTTP status of the answer (0: no answer
\* arrived), text is err.Error(), keys is secret.Data["keys"]
ListResponse(kind, status, text) ==
  [kind |-> kind, status |-> status, text |-> text, keys |-> {}]

\* no request has come back
NoResponse == ListResponse("none", 0, <<>>)

\* worker w has no call under way and has made none
NoCall ==
  [op |-> "none", pc |-> "idle", path |-> <<>>, currentNamespace |-> <<>>,
   listedIn |-> <<>>, child |-> <<>>, resp |-> NoResponse, exit |-> "none",
   answer |-> FALSE, err |-> FALSE]

\* a Gateway call as the invocation saw it: site is where Reconcile issued
\* it, val the answer of a NamespaceExists the handler acts on
Call(op, path, ok, val, site) ==
  [op |-> op, path |-> path, ok |-> ok, val |-> val, site |-> site]

\* A run is a maximal sequence of successive invocations of one name with the
\* same observation (kind), during which no other actor changed the backend
\* namespace of that name. existed0: the backend namespace existed when the
\* run began; inv: completed invocations; creates, deletes: CreateNamespace
\* and DeleteNamespace calls that succeeded; clean: no call of Reconcile or of
\* its two handlers failed (so every call issued is one that succeeded).
\* The counters stop at MaxCount.
NoRun ==
  [kind |-> "void", existed0 |-> FALSE, inv |-> 0, creates |-> 0, deletes |-> 0,
   clean |-> TRUE]

Nobody == <<>>

Bump(k) == IF k < MaxCount THEN k + 1 ELSE MaxCount

RunAt(r, kind, existed) ==
  IF r.kind = kind THEN r ELSE [NoRun EXCEPT !.kind = kind, !.existed0 = existed]

PathOf(n) == formatVaultNamespacePath(cfg, n)

TypeOK ==
  /\ cfg \in Configs
  /\ cluster \subseteq Names
  /\ vault \subseteq {GwKey(formatVaultNamespacePath(cfg, n)) : n \in Names}
  /\ healthy \in BOOLEAN
  /\ pending \in [Names -> BOOLEAN]
  /\ pc \in [Names -> {"idle", "get", "crtExists", "create", "sweep",
                       "delExists", "delete", "done"}]
  /\ obs \in [Names -> {"none", "present", "absent", "error"}]
  /\ focus \in Names \cup {Nobody}
  /\ run.kind \in {"void", "present", "absent"}
  /\ ctx \in [Names -> {"live", "expired"}]

\* the engine as constructed with one of the configurations configs
InitWith(configs) ==
  /\ cfg \in configs
  /\ cluster \in SUBSET Names
  /\ vault \in SUBSET {GwKey(formatVaultNamespacePath(cfg, n)) : n \in Names}
  /\ healthy = FALSE
  /\ pending = [n \in Names |-> n \in cluster]
  /\ pc = [n \in Names |-> "idle"]
  /\ obs = [n \in Names |-> "none"]
  /\ calls = [n \in Names |-> <<>>]
  /\ result = [n \in Names |-> NoResult]
  /\ run = NoRun
  /\ ctx = [n \in Names |-> "live"]
  /\ app = NoApp
  /\ client = NoClient
  /\ ex = [w \in Workers |-> NoCall]

InitEngine == InitWith(Configs)

Init ==
  /\ InitEngine
  /\ focus = Nobody

\* the same engine with the runs of one name recorded
InitRun ==
  /\ InitEngine
  /\ focus \in Names

\* record f in the current run, when n is the name whose runs are recorded
RunUpd(n, f(_)) ==
  run' = IF n # focus \/ run.kind = "void" THEN run ELSE f(run)

\* a call of the handler failed in the current run
Unclean(n) == RunUpd(n, LAMBDA r : [r EXCEPT !.clean = FALSE])

\* ------------------------------------------------- scheduler and environment
\* A cluster namespace is created: the watch set up by SetupWithManager
\* queues a request for its name.
NamespaceAdded(n) ==
  /\ n \notin cluster
  /\ cluster' = cluster \cup {n}
  /\ pending' = [pending EXCEPT ![n] = TRUE]
  /\ UNCHANGED <<aux, ctx, cfg, vault, healthy, pc, obs, calls, result, run, focus>>

\* A cluster namespace is deleted: a request for its name is queued.
NamespaceRemoved(n) ==
  /\ n \in cluster
  /\ cluster' = cluster \ {n}
  /\ pending' = [pending EXCEPT ![n] = TRUE]
  /\ UNCHANGED <<aux, ctx, cfg, vault, healthy, pc, obs, calls, result, run, focus>>

\* Another actor deletes the backend namespace of name n.
OtherActorDeletes(n) ==
  /\ GwExists(vault, PathOf(n))
  /\ vault' = GwDelete(vault, PathOf(n))
  /\ run' = IF focus # Nobody /\ GwKey(PathOf(focus)) = GwKey(PathOf(n)) THEN NoRun ELSE run
  /\ UNCHANGED <<aux, ctx, cfg, cluster, healthy, pending, pc, obs, calls, result, focus>>

\* The Gateway and the cluster API stop failing.
Recover ==
  /\ ~healthy
  /\ healthy' = TRUE
  /\ UNCHANGED <<aux, ctx, cfg, cluster, vault, pending, pc, obs, calls, result, run, focus>>

\* The scheduler hands the queued request for n to a worker; it never runs
\* two invocations for one name at a time. Reconcile begins by deriving its
\* context, which has 30 s to live.
Deliver(n) ==
  /\ pending[n]
  /\ pc[n] = "idle"
  /\ pending' = [pending EXCEPT ![n] = FALSE]
  /\ pc' = [pc EXCEPT ![n] = "get"]
  /\ ctx' = [ctx EXCEPT ![n] = "live"]
  /\ UNCHANGED <<aux, cfg, cluster, vault, healthy, obs, calls, result, run, focus>>

\* The invocation has returned: the scheduler requeues the name after an
\* error and after a non-zero RequeueAfter.
Finish(n) ==
  /\ pc[n] = "done"
  /\ pending' = [pending EXCEPT ![n] =
                   @ \/ result[n].err # NilError \/ result[n].requeueAfter > 0]
  /\ RunUpd(n, LAMBDA r : [r EXCEPT !.inv = Bump(@)])
  /\ pc' = [pc EXCEPT ![n] = "idle"]
  /\ obs' = [obs EXCEPT ![n] = "none"]
  /\ calls' = [calls EXCEPT ![n] = <<>>]
  /\ result' = [result EXCEPT ![n] = NoResult]
  /\ UNCHANGED <<aux, ctx, cfg, cluster, vault, healthy, focus>>

\* ----------------------------------------------------------------- Reconcile
\* return res from Reconcile
Return(n, res) ==
  /\ result' = [result EXCEPT ![n] = res]
  /\ pc' = [pc EXCEPT ![n] = "done"]

\* append a Gateway call to the invocation's record
Log(n, c) == calls' = [calls EXCEPT ![n] = Append(@, c)]

\* GetFound with a seeded fault: the shouldSyncNamespace test is left out.
GetFound_NoFilter(n) ==
  /\ pc[n] = "get"
  /\ n \in cluster
  /\ obs' = [obs EXCEPT ![n] = "present"]
  /\ run' = IF n = focus THEN RunAt(run, "present", GwExists(vault, PathOf(n))) ELSE run
  /\ pc' = [pc EXCEPT ![n] = "crtExists"]
  /\ UNCHANGED <<aux, ctx, cfg, cluster, vault, healthy, pending, calls, result, focus>>

\* r.Get finds the namespace; Reconcile then asks shouldSyncNamespace.
GetFound(n) ==
  /\ pc[n] = "get"
  /\ n \in cluster
  /\ obs' = [obs EXCEPT ![n] = "present"]
  /\ run' = IF n = focus THEN RunAt(run, "present", GwExists(vault, PathOf(n))) ELSE run
  /\ IF ~shouldSyncNamespace(cfg, n)
       THEN Return(n, Result(0, NilError))
       ELSE /\ pc' = [pc EXCEPT ![n] = "crtExists"]
            /\ UNCHANGED result
  /\ UNCHANGED <<aux, ctx, cfg, cluster, vault, healthy, pending, calls, focus>>

\* GetNotFound with a seeded fault: DeleteVaultNamespaces is not consulted.
GetNotFound_NoFlag(n) ==
  /\ pc[n] = "get"
  /\ n \notin cluster
  /\ obs' = [obs EXCEPT ![n] = "absent"]
  /\ run' = IF n = focus THEN RunAt(run, "absent", GwExists(vault, PathOf(n))) ELSE run
  /\ pc' = [pc EXCEPT ![n] = "delExists"]
  /\ UNCHANGED <<aux, ctx, cfg, cluster, vault, healthy, pending, calls, result, focus>>

\* r.Get answers NotFound; Reconcile enters handleNamespaceDeletion, which
\* returns at once when deletion is disabled.
\* GetNotFound with a seeded fault: the deletion handler is entered only for
\* names the sync policy admits.
GetNotFound_Filtered(n) ==
  /\ pc[n] = "get"
  /\ n \notin cluster
  /\ obs' = [obs EXCEPT ![n] = "absent"]
  /\ run' = IF n = focus THEN RunAt(run, "absent", GwExists(vault, PathOf(n))) ELSE run
  /\ IF ~cfg.DeleteVaultNamespaces \/ ~shouldSyncNamespace(cfg, n)
       THEN Return(n, Result(0, NilError))
       ELSE /\ pc' = [pc EXCEPT ![n] = "delExists"]
            /\ UNCHANGED result
  /\ UNCHANGED <<aux, ctx, cfg, cluster, vault, healthy, pending, calls, focus>>

GetNotFound(n) ==
  /\ pc[n] = "get"
  /\ n \notin cluster
  /\ obs' = [obs EXCEPT ![n] = "absent"]
  /\ run' = IF n = focus THEN RunAt(run, "absent", GwExists(vault, PathOf(n))) ELSE run
  /\ IF ~cfg.DeleteVaultNamespaces
       THEN Return(n, Result(0, NilError))
       ELSE /\ pc' = [pc EXCEPT ![n] = "delExists"]
            /\ UNCHANGED result
  /\ UNCHANGED <<aux, ctx, cfg, cluster, vault, healthy, pending, calls, focus>>

\* r.Get fails with an error other than NotFound.
\* GetFails with a seeded fault: every error of r.Get is taken for NotFound.
GetFails_AsNotFound(n) ==
  /\ pc[n] = "get"
  /\ ~healthy
  /\ obs' = [obs EXCEPT ![n] = "error"]
  /\ Unclean(n)
  /\ IF ~cfg.DeleteVaultNamespaces
       THEN Return(n, Result(0, NilError))
       ELSE /\ pc' = [pc EXCEPT ![n] = "delExists"]
            /\ UNCHANGED result
  /\ UNCHANGED <<aux, ctx, cfg, cluster, vault, healthy, pending, calls, focus>>

GetFails(n) ==
  /\ pc[n] = "get"
  /\ ~healthy
  /\ obs' = [obs EXCEPT ![n] = "error"]
  /\ Unclean(n)
  /\ Return(n, Result(0, ApiError))
  /\ UNCHANGED <<aux, ctx, cfg, cluster, vault, healthy, pending, calls, focus>>

\* CreationExists with a seeded fault: Create is called whatever the answer.
CreationExists_NoTest(n) ==
  /\ pc[n] = "crtExists"
  /\ Log(n, Call("Exists", PathOf(n), TRUE, GwExists(vault, PathOf(n)), "check"))
  /\ pc' = [pc EXCEPT ![n] = "create"]
  /\ UNCHANGED <<aux, ctx, cfg, cluster, vault, healthy, pending, obs, result, focus, run>>

\* CreationExists with a seeded fault: the answer comes from a cache that
\* holds every name that is to be synced.
CreationExists_Cached(n) ==
  /\ pc[n] = "crtExists"
  /\ Log(n, Call("Exists", PathOf(n), TRUE, TRUE, "check"))
  /\ pc' = [pc EXCEPT ![n] = "sweep"]
  /\ UNCHANGED <<aux, ctx, cfg, cluster, vault, healthy, pending, obs, result, run, focus>>

\* handleNamespaceCreation: NamespaceExists answers.
CreationExists(n) ==
  /\ pc[n] = "crtExists"
  /\ LET vaultNamespacePath == PathOf(n)
         exists == GwExists(vault, vaultNamespacePath)
     IN /\ Log(n, Call("Exists", vaultNamespacePath, TRUE, exists, "check"))
        /\ pc' = [pc EXCEPT ![n] = IF ~exists THEN "create" ELSE "sweep"]
  /\ UNCHANGED <<aux, ctx, cfg, cluster, vault, healthy, pending, obs, result, run, focus>>

\* CreationExistsFails with a seeded fault: the error is swallowed and
\* Reconcile returns (Result{}, nil).
CreationExistsFails_Swallowed(n) ==
  /\ pc[n] = "crtExists"
  /\ ~healthy
  /\ Log(n, Call("Exists", PathOf(n), FALSE, FALSE, "check"))
  /\ Unclean(n)
  /\ Return(n, Result(0, NilError))
  /\ UNCHANGED <<aux, ctx, cfg, cluster, vault, healthy, pending, obs, focus>>

\* CreationExistsFails with a seeded fault: the error is dropped and the
\* namespace taken not to exist.
CreationExistsFails_Ignored(n) ==
  /\ pc[n] = "crtExists"
  /\ ~healthy
  /\ Log(n, Call("Exists", PathOf(n), FALSE, FALSE, "check"))
  /\ Unclean(n)
  /\ pc' = [pc EXCEPT ![n] = "create"]
  /\ UNCHANGED <<aux, ctx, cfg, cluster, vault, healthy, pending, obs, result, focus>>

\* handleNamespaceCreation: NamespaceExists fails.
CreationExistsFails(n) ==
  /\ pc[n] = "crtExists"
  /\ ~healthy
  /\ Log(n, Call("Exists", PathOf(n), FALSE, FALSE, "check"))
  /\ Unclean(n)
  /\ Return(n, Result(BackoffSeconds, Wrap(ErrNamespaceCheck, VaultError)))
  /\ UNCHANGED <<aux, ctx, cfg, cluster, vault, healthy, pending, obs, focus>>

\* handleNamespaceCreation: CreateNamespace succeeds.
\* CreateNamespace with a seeded fault: the handler stores the path it derived
\* as the configured namespace root.
CreateNamespace_StoresPath(n) ==
  /\ pc[n] = "create"
  /\ vault' = GwCreate(vault, PathOf(n))
  /\ cfg' = [cfg EXCEPT !.NamespaceRoot = PathOf(n)]
  /\ Log(n, Call("Create", PathOf(n), TRUE, FALSE, "mutate"))
  /\ RunUpd(n, LAMBDA r : [r EXCEPT !.creates = Bump(@)])
  /\ pc' = [pc EXCEPT ![n] = "sweep"]
  /\ UNCHANGED <<aux, ctx, cluster, healthy, pending, obs, result, focus>>

CreateNamespace(n) ==
  /\ pc[n] = "create"
  /\ vault' = GwCreate(vault, PathOf(n))
  /\ Log(n, Call("Create", PathOf(n), TRUE, FALSE, "mutate"))
  /\ RunUpd(n, LAMBDA r : [r EXCEPT !.creates = Bump(@)])
  /\ pc' = [pc EXCEPT ![n] = "sweep"]
  /\ UNCHANGED <<aux, ctx, cfg, cluster, healthy, pending, obs, result, focus>>

\* CreateNamespaceFails with a seeded fault: the error is returned with an
\* empty Result.
CreateNamespaceFails_NoRequeue(n) ==
  /\ pc[n] = "create"
  /\ ~healthy
  /\ Log(n, Call("Create", PathOf(n), FALSE, FALSE, "mutate"))
  /\ Unclean(n)
  /\ Return(n, Result(0, Wrap(ErrNamespaceCreation, VaultError)))
  /\ UNCHANGED <<aux, ctx, cfg, cluster, vault, healthy, pending, obs, focus>>

\* CreateNamespaceFails with a seeded fault: the handler calls
\* CreateNamespace again after an error.
CreateNamespaceFails_Retries(n) ==
  /\ pc[n] = "create"
  /\ ~healthy
  /\ Len(calls[n]) <= MaxCount
  /\ Log(n, Call("Create", PathOf(n), FALSE, FALSE, "mutate"))
  /\ Unclean(n)
  /\ UNCHANGED <<aux, ctx, cfg, cluster, vault, healthy, pending, pc, obs, result, focus>>

\* handleNamespaceCreation: CreateNamespace fails.
CreateNamespaceFails(n) ==
  /\ pc[n] = "create"
  /\ ~healthy
  /\ Log(n, Call("Create", PathOf(n), FALSE, FALSE, "mutate"))
  /\ Unclean(n)
  /\ Return(n, Result(BackoffSeconds, Wrap(ErrNamespaceCreation, VaultError)))
  /\ UNCHANGED <<aux, ctx, cfg, cluster, vault, healthy, pending, obs, focus>>

\* the NamespaceExists calls of the loop over nsList.Items: one for each
\* item that is to be synced, in the order of the list; those of the names
\* in failing return an error (the item is then counted as pending)
SweepCalls(items, failing) ==
  LET managed == SelectSeq(items, LAMBDA m : shouldSyncNamespace(cfg, m))
  IN [i \in 1..Len(managed) |->
        Call("Exists", formatVaultNamespacePath(cfg, managed[i]),
             managed[i] \notin failing, FALSE, "sweep")]

\* Sweep with a seeded fault: a NamespaceExists error met in the loop is
\* returned as the invocation's error.
Sweep_PropagatesFailure(n) ==
  /\ pc[n] = "sweep"
  /\ \E failing \in SUBSET cluster :
       /\ failing # {} => ~healthy
       /\ \A m \in failing : shouldSyncNamespace(cfg, m)
       /\ calls' = [calls EXCEPT ![n] =
                      @ \o SweepCalls(SelectSeq(AllNames, LAMBDA m : m \in cluster), failing)]
       /\ IF failing = {}
            THEN Return(n, Result(cfg.ReconcileInterval, NilError))
            ELSE Return(n, Result(BackoffSeconds, Wrap(ErrNamespaceCheck, VaultError)))
  /\ UNCHANGED <<aux, ctx, cfg, cluster, vault, healthy, pending, obs, run, focus>>

\* Reconcile after handleNamespaceCreation returned nil: r.Client.List
\* succeeds, the loop asks NamespaceExists for every managed namespace to
\* set the gauges, and Reconcile returns RequeueAfter = ReconcileInterval.
\* Sweep with a seeded fault: the successful invocation returns an empty
\* Result.
Sweep_NoRequeue(n) ==
  /\ pc[n] = "sweep"
  /\ \E failing \in SUBSET cluster :
       /\ failing # {} => ~healthy
       /\ \A m \in failing : shouldSyncNamespace(cfg, m)
       /\ calls' = [calls EXCEPT ![n] =
                      @ \o SweepCalls(SelectSeq(AllNames, LAMBDA m : m \in cluster), failing)]
  /\ Return(n, Result(0, NilError))
  /\ UNCHANGED <<aux, ctx, cfg, cluster, vault, healthy, pending, obs, run, focus>>

Sweep(n) ==
  /\ pc[n] = "sweep"
  /\ \E failing \in SUBSET cluster :
       /\ failing # {} => ~healthy
       /\ \A m \in failing : shouldSyncNamespace(cfg, m)
       /\ calls' = [calls EXCEPT ![n] =
                      @ \o SweepCalls(SelectSeq(AllNames, LAMBDA m : m \in cluster), failing)]
  /\ Return(n, Result(cfg.ReconcileInterval, NilError))
  /\ UNCHANGED <<aux, ctx, cfg, cluster, vault, healthy, pending, obs, run, focus>>

\* r.Client.List fails: the gauges are left alone and Reconcile returns.
ListFails(n) ==
  /\ pc[n] = "sweep"
  /\ ~healthy
  /\ Return(n, Result(cfg.ReconcileInterval, NilError))
  /\ UNCHANGED <<aux, ctx, cfg, cluster, vault, healthy, pending, obs, calls, run, focus>>

\* DeletionExists with a seeded fault: Delete is called whatever the answer.
DeletionExists_NoTest(n) ==
  /\ pc[n] = "delExists"
  /\ Log(n, Call("Exists", PathOf(n), TRUE, GwExists(vault, PathOf(n)), "check"))
  /\ pc' = [pc EXCEPT ![n] = "delete"]
  /\ UNCHANGED <<aux, ctx, cfg, cluster, vault, healthy, pending, obs, result, focus, run>>

\* DeletionExists with a seeded fault: the test of the answer is inverted.
DeletionExists_Inverted(n) ==
  /\ pc[n] = "delExists"
  /\ LET exists == GwExists(vault, PathOf(n))
     IN /\ Log(n, Call("Exists", PathOf(n), TRUE, exists, "check"))
        /\ IF ~exists
             THEN /\ pc' = [pc EXCEPT ![n] = "delete"]
                  /\ UNCHANGED result
             ELSE Return(n, Result(0, NilError))
  /\ UNCHANGED <<aux, ctx, cfg, cluster, vault, healthy, pending, obs, focus, run>>

\* handleNamespaceDeletion: NamespaceExists answers.
DeletionExists(n) ==
  /\ pc[n] = "delExists"
  /\ LET vaultNamespacePath == PathOf(n)
         exists == GwExists(vault, vaultNamespacePath)
     IN /\ Log(n, Call("Exists", vaultNamespacePath, TRUE, exists, "check"))
        /\ IF exists
             THEN /\ pc' = [pc EXCEPT ![n] = "delete"]
                  /\ UNCHANGED result
             ELSE Return(n, Result(0, NilError))
  /\ UNCHANGED <<aux, ctx, cfg, cluster, vault, healthy, pending, obs, run, focus>>

\* DeletionExistsFails with a seeded fault: the error is wrapped in the
\* sentinel of the deletion.
DeletionExistsFails_WrongClass(n) ==
  /\ pc[n] = "delExists"
  /\ ~healthy
  /\ Log(n, Call("Exists", PathOf(n), FALSE, FALSE, "check"))
  /\ Unclean(n)
  /\ Return(n, Result(BackoffSeconds, Wrap(ErrNamespaceDeletion, VaultError)))
  /\ UNCHANGED <<aux, ctx, cfg, cluster, vault, healthy, pending, obs, focus>>

\* handleNamespaceDeletion: NamespaceExists fails.
DeletionExistsFails(n) ==
  /\ pc[n] = "delExists"
  /\ ~healthy
  /\ Log(n, Call("Exists", PathOf(n), FALSE, FALSE, "check"))
  /\ Unclean(n)
  /\ Return(n, Result(BackoffSeconds, Wrap(ErrNamespaceCheck, VaultError)))
  /\ UNCHANGED <<aux, ctx, cfg, cluster, vault, healthy, pending, obs, focus>>

\* handleNamespaceDeletion: DeleteNamespace succeeds.
DeleteNamespace(n) ==
  /\ pc[n] = "delete"
  /\ vault' = GwDelete(vault, PathOf(n))
  /\ Log(n, Call("Delete", PathOf(n), TRUE, FALSE, "mutate"))
  /\ RunUpd(n, LAMBDA r : [r EXCEPT !.deletes = Bump(@)])
  /\ Return(n, Result(0, NilError))
  /\ UNCHANGED <<aux, ctx, cfg, cluster, healthy, pending, obs, focus>>

\* DeleteNamespaceFails with a seeded fault: the error is swallowed and
\* Reconcile returns (Result{}, nil).
DeleteNamespaceFails_Swallowed(n) ==
  /\ pc[n] = "delete"
  /\ ~healthy
  /\ Log(n, Call("Delete", PathOf(n), FALSE, FALSE, "mutate"))
  /\ Unclean(n)
  /\ Return(n, Result(0, NilError))
  /\ UNCHANGED <<aux, ctx, cfg, cluster, vault, healthy, pending, obs, focus>>

\* handleNamespaceDeletion: DeleteNamespace fails.
DeleteNamespaceFails(n) ==
  /\ pc[n] = "delete"
  /\ ~healthy
  /\ Log(n, Call("Delete", PathOf(n), FALSE, FALSE, "mutate"))
  /\ Unclean(n)
  /\ Return(n, Result(BackoffSeconds, Wrap(ErrNamespaceDeletion, VaultError)))
  /\ UNCHANGED <<aux, ctx, cfg, cluster, vault, healthy, pending, obs, focus>>

\* ------------------------------------------------------------ specification
Next ==
  \/ Recover
  \/ \E n \in Names :
       \/ NamespaceAdded(n)
       \/ NamespaceRemoved(n)
       \/ OtherActorDeletes(n)
       \/ Deliver(n)
       \/ GetFound(n)
       \/ GetNotFound(n)
       \/ GetFails(n)
       \/ CreationExists(n)
       \/ CreationExistsFails(n)
       \/ CreateNamespace(n)
       \/ CreateNamespaceFails(n)
       \/ Sweep(n)
       \/ ListFails(n)
       \/ DeletionExists(n)
       \/ DeletionExistsFails(n)
       \/ DeleteNamespace(n)
       \/ DeleteNamespaceFails(n)
       \/ Finish(n)

Spec == Init /\ [][Next]_vars

SpecRun == InitRun /\ [][Next]_vars

\* the engine after every cluster namespace has been reconciled: the backend
\* namespace of each name that is to be synced exists
InitRestore ==
  /\ InitWith(Configs)
  /\ cluster = Names
  /\ vault = {GwKey(formatVaultNamespacePath(cfg, n)) :
                n \in {m \in Names : shouldSyncNamespace(cfg, m)}}
  /\ focus = Nobody

SpecRestore == InitRestore /\ [][Next]_vars

\* configurations with a pattern that does not compile: next to an include
\* pattern that matches "app", and as the only exclude pattern
MalformedConfigs ==
  { ControllerConfig(<<BadPat, PatApp>>, <<>>, FmtPlain, <<>>, TRUE, 300),
    ControllerConfig(<<>>, <<BadPat>>, FmtK8s, <<>>, TRUE, 0) }

InitMalformed ==
  /\ InitWith(MalformedConfigs)
  /\ focus = Nobody

\* the engine constructed with a malformed pattern in its configuration
SpecMalformed == InitMalformed /\ [][Next]_vars

\* The steps of the scheduler and of Reconcile for name n that go through:
\* a queued request is delivered in the end, and every call returns (each
\* invocation runs under a 30 s context deadline).
Progress(n) ==
  \/ Deliver(n)
  \/ GetFound(n)
  \/ GetNotFound(n)
  \/ CreationExists(n)
  \/ CreateNamespace(n)
  \/ Sweep(n)
  \/ DeletionExists(n)
  \/ DeleteNamespace(n)
  \/ Finish(n)

\* the configurations the engine is followed to the end under: one managed
\* name next to a system name, with and without a root, a periodic requeue
\* and deletion
LiveConfigs ==
  { ControllerConfig(<<>>, <<>>, FmtK8s, <<>>, TRUE, 0),
    ControllerConfig(<<PatApp>>, <<>>, FmtPlain, RootAdmin, TRUE, 300),
    ControllerConfig(<<>>, <<>>, FmtPlain, <<>>, FALSE, 300) }

InitLive ==
  /\ InitWith(LiveConfigs)
  /\ focus = Nobody

\* the engine under a scheduler that keeps delivering and with a Gateway and
\* a cluster API that stop failing in the end
SpecLive ==
  /\ InitLive
  /\ [][Next]_vars
  /\ WF_vars(Recover)
  /\ \A n \in Names : WF_vars(Progress(n))

\* ------------------------------------------- the pure functions on their own
\* "test-.*"
PatTestAny == Pat(FALSE, <<"t","e","s","t","-">>, FALSE)

\* the patterns the include and exclude lists are made of
PatternPool == {PatKubeAny, PatApp, PatTestAny, BadPat}

\* the sequences over S of length k at most
SeqsUpTo(S, k) == UNION {[1..m -> S] : m \in 0..k}

NsOpenshift == <<"o","p","e","n","s","h","i","f","t">>
NsOpenshift2 == <<"o","p","e","n","s","h","i","f","t","2">>
NsOpenshiftX == <<"o","p","e","n","s","h","i","f","t","-","x">>
NsDefault == <<"d","e","f","a","u","l","t">>
NsDefaults == <<"d","e","f","a","u","l","t","s">>
NsMyKubeX == <<"m","y","-","k","u","b","e","-","x">>
NsTestNs == <<"t","e","s","t","-","n","s">>
NsEmpty == <<>>

\* the names the pure functions are applied to
PureNames ==
  {NsApp, NsKube, NsOpenshift, NsOpenshift2, NsOpenshiftX, NsDefault, NsDefaults,
   NsMyKubeX, NsTestNs, NsEmpty}

\* "/k8s-%s", "k8s-%s/", ""
FmtSlashK8s == <<"/","k","8","s","-","%","s">>
FmtK8sSlash == <<"k","8","s","-","%","s","/">>
FmtEmpty == <<>>
Formats == {FmtK8s, FmtPlain, FmtSlashK8s, FmtK8sSlash, FmtEmpty}

\* "", "/admin", "/admin/", "admin", "/"
RootNone == <<>>
RootSlashAdmin == <<"/","a","d","m","i","n">>
RootBareAdmin == <<"a","d","m","i","n">>
RootSlash == <<"/">>
Roots == {RootNone, RootSlashAdmin, RootAdmin, RootBareAdmin, RootSlash}

\* configurations that vary the policy, and configurations that vary the
\* template
PolicyConfigs ==
  {ControllerConfig(inc, exc, FmtPlain, RootNone, TRUE, 0) :
     inc \in SeqsUpTo(PatternPool, MaxPatterns), exc \in SeqsUpTo(PatternPool, MaxPatterns)}
TemplateConfigs ==
  {ControllerConfig(<<>>, <<>>, f, r, TRUE, 0) : f \in Formats, r \in Roots}

\* the engine at rest, no request queued
EngineAtRest ==
  /\ cluster = {}
  /\ vault = {}
  /\ healthy = TRUE
  /\ pending = [n \in Names |-> FALSE]
  /\ pc = [n \in Names |-> "idle"]
  /\ obs = [n \in Names |-> "none"]
  /\ calls = [n \in Names |-> <<>>]
  /\ result = [n \in Names |-> NoResult]
  /\ focus = Nobody
  /\ run = NoRun
  /\ ctx = [n \in Names |-> "live"]

engineVars ==
  <<cfg, cluster, vault, healthy, pending, pc, obs, calls, result, focus, run, ctx>>

\* a reconciler with configuration cfg, and a name to apply a function to
InitPure ==
  /\ cfg \in PolicyConfigs \cup TemplateConfigs
  /\ EngineAtRest
  /\ app \in {[NoApp EXCEPT !.fn = "input", !.name = n] : n \in PureNames}
  /\ client = NoClient
  /\ ex = [w \in Workers |-> NoCall]

\* r.shouldSyncNamespace(app.name)
ApplyShouldSync ==
  /\ app.fn = "input"
  /\ app' = [app EXCEPT !.fn = "shouldSync",
                         !.outBool = shouldSyncNamespace(cfg, app.name)]
  /\ UNCHANGED <<engineVars, client, ex>>

\* matchesAnyPattern(app.name, r.Config.IncludeNamespaces)
ApplyMatches ==
  /\ app.fn = "input"
  /\ app' = [app EXCEPT !.fn = "matches",
                         !.outBool = matchesAnyPattern(app.name, cfg.IncludeNamespaces)]
  /\ UNCHANGED <<engineVars, client, ex>>

\* r.formatVaultNamespacePath(app.name)
ApplyFormatPath ==
  /\ app.fn = "input"
  /\ app' = [app EXCEPT !.fn = "formatPath",
                         !.outPath = formatVaultNamespacePath(cfg, app.name)]
  /\ UNCHANGED <<engineVars, client, ex>>

NextPure ==
  \/ ApplyShouldSync
  \/ ApplyMatches
  \/ ApplyFormatPath

SpecPure == InitPure /\ [][NextPure]_vars

\* ------------------------------------------------- the vaultClient on its own
\* the position of the last '/' of s (0: none)
LastSlash(s) ==
  IF \E i \in DOMAIN s : s[i] = "/"
    THEN CHOOSE i \in DOMAIN s : s[i] = "/" /\ \A j \in (i + 1)..Len(s) : s[j] # "/"
    ELSE 0

\* strings.TrimSuffix(s, "/")
TrimSuffix(s) ==
  IF s # <<>> /\ s[Len(s)] = "/" THEN SubSeq(s, 1, Len(s) - 1) ELSE s

\* splitNamespacePath with a seeded fault: the path is split at its first
\* '/'.
splitNamespacePath_FirstSlash(namespacePath) ==
  LET cleanPath == TrimLeft(TrimRight(namespacePath))
      cut == IF \E i \in DOMAIN cleanPath : cleanPath[i] = "/"
               THEN CHOOSE i \in DOMAIN cleanPath :
                      cleanPath[i] = "/" /\ \A j \in 1..(i - 1) : cleanPath[j] # "/"
               ELSE 0
  IN IF cut = 0
       THEN [parent |-> <<>>, child |-> cleanPath]
       ELSE [parent |-> TrimSuffix(SubSeq(cleanPath, 1, cut)),
             child |-> SubSeq(cleanPath, cut + 1, Len(cleanPath))]

\* splitNamespacePath: (parent, child) of strings.Trim(namespacePath, "/"),
\* split at its last '/' by path.Split
splitNamespacePath(namespacePath) ==
  LET cleanPath == TrimLeft(TrimRight(namespacePath))
      cut == LastSlash(cleanPath)
  IN IF cut = 0
       THEN [parent |-> <<>>, child |-> cleanPath]
       ELSE [parent |-> TrimSuffix(SubSeq(cleanPath, 1, cut)),
             child |-> SubSeq(cleanPath, cut + 1, Len(cleanPath))]

\* the keys a LIST of sys/namespaces returns inside namespace ns: the
\* children of ns, each with a trailing '/'
ListKeys(v, ns) ==
  {splitNamespacePath(k).child \o <<"/">> : k \in {x \in v : splitNamespacePath(x).parent = ns}}

\* "/admin/app", "app", "team/app/"
PathAdminApp == <<"/","a","d","m","i","n","/","a","p","p">>
PathApp == <<"a","p","p">>
PathTeamApp == <<"t","e","a","m","/","a","p","p","/">>
ClientPaths == {PathAdminApp, PathApp, PathTeamApp}

\* config.Auth.Namespace: "", "/auth/"
AuthNone == <<>>
AuthNs == <<"/","a","u","t","h","/">>
AuthNamespaces == {AuthNone, AuthNs}

\* strings.Contains(s, substr)
Contains(s, substr) ==
  \E i \in 1..(Len(s) - Len(substr) + 1) : SubSeq(s, i, i + Len(substr) - 1) = substr

\* "404"
Text404 == <<"4","0","4">>

\* err.Error() of a failed request: "Code: 404", "Code: 403",
\* ":8200: refused", ":4040: refused", ":8200: deadline exceeded",
\* ":4040: deadline exceeded"
TextCode404 == <<"C","o","d","e",":"," ","4","0","4">>
TextCode403 == <<"C","o","d","e",":"," ","4","0","3">>
TextRefused == <<":","8","2","0","0",":"," ","r","e","f","u","s","e","d">>
TextRefused4040 == <<":","4","0","4","0",":"," ","r","e","f","u","s","e","d">>
TextDeadline == <<":","8","2","0","0",":"," ","d","e","a","d","l","i","n","e"," ","e","x","c","e","e","d","e","d">>
TextDeadline4040 == <<":","4","0","4","0",":"," ","d","e","a","d","l","i","n","e"," ","e","x","c","e","e","d","e","d">>

\* what the LIST request comes back with: a secret with a list of keys, a
\* secret whose "keys" is not a list, a nil secret, a secret without Data,
\* or an error: the server answered 404, it answered 403 (the token is not
\* accepted), the connection was refused (the address having port 8200 or
\* 4040), the context's deadline passed
Responses ==
  { ListResponse("keys", 200, <<>>),
    ListResponse("noKeys", 200, <<>>),
    ListResponse("nil", 200, <<>>),
    ListResponse("noData", 200, <<>>),
    ListResponse("error", 404, TextCode404),
    ListResponse("error", 403, TextCode403),
    ListResponse("error", 0, TextRefused),
    ListResponse("error", 0, TextRefused4040),
    ListResponse("error", 0, TextDeadline) }
\* what the login request of authenticate comes back with
Logins == {"ok", "failed", "unsupported"}

\* NewClient has built the client: its namespace is the trimmed
\* NamespaceRoot when one is configured (client.go:382-386); no call yet
InitClient ==
  /\ cfg \in {ControllerConfig(<<>>, <<>>, FmtPlain, r, TRUE, 0) : r \in {RootNone, RootAdmin}}
  /\ cluster = {}
  /\ vault \in {{}, {GwKey(PathAdminApp)}}
  /\ healthy = TRUE
  /\ pending = [n \in Names |-> FALSE]
  /\ pc = [n \in Names |-> "idle"]
  /\ obs = [n \in Names |-> "none"]
  /\ calls = [n \in Names |-> <<>>]
  /\ result = [n \in Names |-> NoResult]
  /\ focus = Nobody
  /\ run = NoRun
  /\ ctx = [n \in Names |-> "live"]
  /\ app = NoApp
  /\ client = [namespace |-> GwKey(cfg.NamespaceRoot), initial |-> GwKey(cfg.NamespaceRoot)]
  /\ ex = [w \in Workers |-> NoCall]

InProgress(w) == ex[w].pc \in {"saved", "set", "listed"}
NoCallInProgress == \A w \in Workers : ~InProgress(w)

\* NamespaceExists(ctx, namespacePath) is entered:
\* currentNamespace := c.client.Namespace()
ExistsBegin(w, namespacePath) ==
  /\ ~InProgress(w)
  /\ ex' = [ex EXCEPT ![w] =
               [NoCall EXCEPT !.op = "NamespaceExists", !.pc = "saved",
                              !.path = namespacePath,
                              !.currentNamespace = client.namespace]]
  /\ UNCHANGED <<engineVars, app, client>>

\* the same when the callers take turns
SerialExistsBegin(w, namespacePath) ==
  /\ NoCallInProgress
  /\ ExistsBegin(w, namespacePath)

\* c.client.SetNamespace(parent), or SetNamespace("") without a parent
ExistsSetNamespace(w) ==
  /\ ex[w].op = "NamespaceExists" /\ ex[w].pc = "saved"
  /\ client' = [client EXCEPT !.namespace = splitNamespacePath(ex[w].path).parent]
  /\ ex' = [ex EXCEPT ![w].pc = "set"]
  /\ UNCHANGED <<engineVars, app>>

\* NamespaceExists after ListWithContext came back with resp: what it
\* returns (exists, err # nil) and by which of its return statements
ExistsOutcome_NoTrimSuffix(resp, child) ==
  IF resp.kind = "error"
    THEN IF Contains(resp.text, Text404)
           THEN [exists |-> FALSE, err |-> FALSE, exit |-> "404"]
           ELSE [exists |-> FALSE, err |-> TRUE, exit |-> "transport"]
    ELSE IF resp.kind \in {"nil", "noData"}
           THEN [exists |-> FALSE, err |-> FALSE, exit |-> "nil"]
           ELSE IF resp.kind # "keys"
                  THEN [exists |-> FALSE, err |-> TRUE, exit |-> "malformed"]
                  ELSE IF \E keyStr \in resp.keys : keyStr = child
                         THEN [exists |-> TRUE, err |-> FALSE, exit |-> "found"]
                         ELSE [exists |-> FALSE, err |-> FALSE, exit |-> "notFound"]

\* NamespaceExists after ListWithContext came back with resp: what it
\* returns (exists, err # nil) and by which of its return statements
ExistsOutcome(resp, child) ==
  IF resp.kind = "error"
    THEN IF Contains(resp.text, Text404)
           THEN [exists |-> FALSE, err |-> FALSE, exit |-> "404"]
           ELSE [exists |-> FALSE, err |-> TRUE, exit |-> "transport"]
    ELSE IF resp.kind \in {"nil", "noData"}
           THEN [exists |-> FALSE, err |-> FALSE, exit |-> "nil"]
           ELSE IF resp.kind # "keys"
                  THEN [exists |-> FALSE, err |-> TRUE, exit |-> "malformed"]
                  ELSE IF \E keyStr \in resp.keys : TrimSuffix(keyStr) = child
                         THEN [exists |-> TRUE, err |-> FALSE, exit |-> "found"]
                         ELSE [exists |-> FALSE, err |-> FALSE, exit |-> "notFound"]

\* ListWithContext(ctx, "sys/namespaces") in the client's namespace of the
\* moment, and the reading of the response
ExistsList(w, resp) ==
  /\ ex[w].op = "NamespaceExists" /\ ex[w].pc = "set"
  /\ LET child == splitNamespacePath(ex[w].path).child
         got == IF resp.kind = "keys"
                  THEN [resp EXCEPT !.keys = ListKeys(vault, client.namespace)]
                  ELSE resp
         out == ExistsOutcome(got, child)
     IN ex' = [ex EXCEPT ![w].pc = "listed",
                         ![w].listedIn = client.namespace,
                         ![w].resp = got,
                         ![w].exit = out.exit,
                         ![w].answer = out.exists,
                         ![w].err = out.err]
  /\ UNCHANGED <<engineVars, app, client>>

\* ExistsReturn with a seeded fault: the namespace is restored on the paths
\* without an error only.
ExistsReturn_NotOnError(w) ==
  /\ ex[w].op = "NamespaceExists" /\ ex[w].pc = "listed"
  /\ client' = IF ex[w].exit \in {"malformed", "transport"}
                 THEN client
                 ELSE [client EXCEPT !.namespace = ex[w].currentNamespace]
  /\ ex' = [ex EXCEPT ![w].pc = "returned", ![w].currentNamespace = <<>>,
                      ![w].listedIn = <<>>]
  /\ UNCHANGED <<engineVars, app>>

\* NamespaceExists returns: defer c.client.SetNamespace(currentNamespace)
ExistsReturn(w) ==
  /\ ex[w].op = "NamespaceExists" /\ ex[w].pc = "listed"
  /\ client' = [client EXCEPT !.namespace = ex[w].currentNamespace]
  /\ ex' = [ex EXCEPT ![w].pc = "returned", ![w].currentNamespace = <<>>,
                      ![w].listedIn = <<>>]
  /\ UNCHANGED <<engineVars, app>>

\* authenticate(client, config) is entered, which NewClient does before the
\* vaultClient is handed out: currentNamespace := client.Namespace()
AuthBegin(w, authNamespace) ==
  /\ NoCallInProgress
  /\ ex' = [ex EXCEPT ![w] =
               [NoCall EXCEPT !.op = "authenticate", !.pc = "saved",
                              !.path = authNamespace,
                              !.currentNamespace = client.namespace]]
  /\ UNCHANGED <<engineVars, app, client>>

\* if config.Auth.Namespace != "": client.SetNamespace(strings.Trim(...))
AuthSetNamespace(w) ==
  /\ ex[w].op = "authenticate" /\ ex[w].pc = "saved"
  /\ client' = IF ex[w].path # <<>>
                 THEN [client EXCEPT !.namespace = TrimLeft(TrimRight(ex[w].path))]
                 ELSE client
  /\ ex' = [ex EXCEPT ![w].pc = "set"]
  /\ UNCHANGED <<engineVars, app>>

\* the switch over authType: the login succeeds, fails, or the method is
\* unsupported
AuthLogin(w, outcome) ==
  /\ ex[w].op = "authenticate" /\ ex[w].pc = "set"
  /\ ex' = [ex EXCEPT ![w].pc = "listed", ![w].listedIn = client.namespace,
                      ![w].exit = outcome]
  /\ UNCHANGED <<engineVars, app, client>>

\* authenticate returns: the deferred SetNamespace(currentNamespace), which
\* is registered only when config.Auth.Namespace != ""
AuthReturn(w) ==
  /\ ex[w].op = "authenticate" /\ ex[w].pc = "listed"
  /\ client' = IF ex[w].path # <<>>
                 THEN [client EXCEPT !.namespace = ex[w].currentNamespace]
                 ELSE client
  /\ ex' = [ex EXCEPT ![w].pc = "returned", ![w].currentNamespace = <<>>,
                      ![w].listedIn = <<>>]
  /\ UNCHANGED <<engineVars, app>>

\* one call at a time on the client
NextSerial ==
  \E w \in Workers :
    \/ \E namespacePath \in ClientPaths : SerialExistsBegin(w, namespacePath)
    \/ ExistsSetNamespace(w)
    \/ \E resp \in Responses : ExistsList(w, resp)
    \/ ExistsReturn(w)
    \/ \E authNamespace \in AuthNamespaces : AuthBegin(w, authNamespace)
    \/ AuthSetNamespace(w)
    \/ \E outcome \in Logins : AuthLogin(w, outcome)
    \/ AuthReturn(w)

SpecSerial == InitClient /\ [][NextSerial]_vars

\* the goroutines call NamespaceExists on the shared vaultClient as they like
NextConcurrent ==
  \E w \in Workers :
    \/ \E namespacePath \in ClientPaths : ExistsBegin(w, namespacePath)
    \/ ExistsSetNamespace(w)
    \/ \E resp \in Responses : ExistsList(w, resp)
    \/ ExistsReturn(w)

SpecConcurrent == InitClient /\ [][NextConcurrent]_vars

\* ------------------------------------- the three operations of the Gateway
\* the paths of TestSplitNamespacePath, the empty path and one with "//"
SplitSimple == <<"n","a","m","e","s","p","a","c","e","1">>
SplitNested == <<"p","a","r","e","n","t","/","c","h","i","l","d">>
SplitDeep == <<"g","r","a","n","d","p","a","r","e","n","t","/","p","a","r","e","n","t","/","c","h","i","l","d">>
SplitLeading == <<"/","n","a","m","e","s","p","a","c","e","1">>
SplitTrailing == <<"n","a","m","e","s","p","a","c","e","1","/">>
SplitBoth == <<"/","p","a","r","e","n","t","/","c","h","i","l","d","/">>
SplitEmpty == <<>>
SplitDouble == <<"a","/","/","b">>
SplitPaths ==
  {SplitSimple, SplitNested, SplitDeep, SplitLeading, SplitTrailing, SplitBoth,
   SplitEmpty, SplitDouble}

\* what RawRequestWithContext comes back with: an error, or a response with
\* a status code
RawResponses ==
  { ListResponse("error", 0, TextRefused),
    ListResponse("status", 200, <<>>),
    ListResponse("status", 204, <<>>),
    ListResponse("status", 400, <<>>) }

\* err == nil and the status is 200 or 204
RawOk(resp) == resp.kind = "status" /\ resp.status \in {200, 204}

\* the key of the namespace child inside the namespace parent
ScopeKey(parent, child) ==
  IF parent = <<>> THEN child ELSE parent \o <<"/">> \o child

\* the goroutine whose calls are followed
Caller == CHOOSE w \in Workers : \A v \in Workers : w <= v

\* CreateNamespace(ctx, namespacePath) of vaultClient: POST
\* /v1/sys/namespaces/<child> with the header X-Vault-Namespace: <parent>
VaultCreateNamespace(w, namespacePath, resp) ==
  /\ ~InProgress(w)
  /\ LET s == splitNamespacePath(namespacePath)
     IN /\ ex' = [ex EXCEPT ![w] =
                     [NoCall EXCEPT !.op = "CreateNamespace", !.pc = "returned",
                                    !.path = namespacePath, !.listedIn = s.parent,
                                    !.child = s.child, !.resp = resp,
                                    !.err = ~RawOk(resp)]]
        /\ vault' = IF RawOk(resp) THEN vault \cup {ScopeKey(s.parent, s.child)}
                                   ELSE vault
  /\ UNCHANGED <<cfg, cluster, healthy, pending, pc, obs, calls, result, focus, run,
                 ctx, app, client>>

\* DeleteNamespace(ctx, namespacePath) of vaultClient: DELETE
\* /v1/sys/namespaces/<child> with the header X-Vault-Namespace: <parent>
VaultDeleteNamespace(w, namespacePath, resp) ==
  /\ ~InProgress(w)
  /\ LET s == splitNamespacePath(namespacePath)
     IN /\ ex' = [ex EXCEPT ![w] =
                     [NoCall EXCEPT !.op = "DeleteNamespace", !.pc = "returned",
                                    !.path = namespacePath, !.listedIn = s.parent,
                                    !.child = s.child, !.resp = resp,
                                    !.err = ~RawOk(resp)]]
        /\ vault' = IF RawOk(resp) THEN vault \ {ScopeKey(s.parent, s.child)}
                                   ELSE vault
  /\ UNCHANGED <<cfg, cluster, healthy, pending, pc, obs, calls, result, focus, run,
                 ctx, app, client>>

\* one goroutine calls the three operations one after the other
NextGateway ==
  \/ \E namespacePath \in SplitPaths : ExistsBegin(Caller, namespacePath)
  \/ ExistsSetNamespace(Caller)
  \/ \E resp \in Responses : ExistsList(Caller, resp)
  \/ ExistsReturn(Caller)
  \/ \E namespacePath \in SplitPaths, resp \in RawResponses :
       VaultCreateNamespace(Caller, namespacePath, resp)
  \/ \E namespacePath \in SplitPaths, resp \in RawResponses :
       VaultDeleteNamespace(Caller, namespacePath, resp)

SpecGateway == InitClient /\ [][NextGateway]_vars

\* ------------------------------------------------------ the configuration
ErrMissingVaultAddress == "ErrMissingVaultAddress"
ErrMissingAuthType == "ErrMissingAuthType"
ErrUnsupportedAuthType == "ErrUnsupportedAuthType"

\* a package-level error value returned as it is
Sentinel(s) == [kind |-> "sentinel", chain |-> {s}, cause |-> "none"]

\* errors.New(text), made where it is returned
ErrorsNew(text) == [kind |-> "new", chain |-> {}, cause |-> text]

\* fmt.Errorf("...: %w", err): a new error that matches what err matches
Errorf(text, err) == [kind |-> "wrapped", chain |-> err.chain, cause |-> text]

VaultAuthConfig(type, token, tokenPath, role, roleID, secretID, roleIDPath, secretIDPath) ==
  [Type |-> type, Token |-> token, TokenPath |-> tokenPath, Role |-> role,
   RoleID |-> roleID, SecretID |-> secretID, RoleIDPath |-> roleIDPath,
   SecretIDPath |-> secretIDPath]

\* the zero VaultAuthConfig
NoAuth == VaultAuthConfig("", "", "", "", "", "", "", "")

VaultConfig(address, auth) == [Address |-> address, Auth |-> auth]

\* the ControllerConfig of package config with the fields LoadConfig sets
FileConfig(vlt, interval, del, fmt, metrics, leader, inc, exc) ==
  [Vault |-> vlt, ReconcileInterval |-> interval, DeleteVaultNamespaces |-> del,
   NamespaceFormat |-> fmt, MetricsBindAddress |-> metrics, LeaderElection |-> leader,
   IncludeNamespaces |-> inc, ExcludeNamespaces |-> exc]

\* the values LoadConfig starts from
DefaultConfig ==
  FileConfig(VaultConfig("", NoAuth), 300, TRUE, FmtPlain, ":8080", TRUE, <<>>, <<>>)

\* the nil *ControllerConfig returned next to an error
NilConfig == [nil |-> TRUE]

\* validateConfig with a seeded fault: approle is content with one of the
\* two direct values or one of the two paths.
validateConfig_AppRoleEither(config) ==
  LET a == config.Vault.Auth
  IN IF config.Vault.Address = "" THEN Sentinel(ErrMissingVaultAddress)
     ELSE IF a.Type = "" THEN Sentinel(ErrMissingAuthType)
     ELSE CASE a.Type = "token" ->
                 IF a.Token = "" /\ a.TokenPath = ""
                   THEN ErrorsNew("either token or tokenPath is required")
                   ELSE NilError
            [] a.Type = "kubernetes" ->
                 IF a.Role = "" THEN ErrorsNew("role is required") ELSE NilError
            [] a.Type = "approle" ->
                 LET hasDirectValues == a.RoleID # "" \/ a.SecretID # ""
                     hasPathValues == a.RoleIDPath # "" \/ a.SecretIDPath # ""
                 IN IF ~hasDirectValues /\ ~hasPathValues
                      THEN ErrorsNew("either roleId+secretId or roleIdPath+secretIdPath are required")
                      ELSE NilError
            [] OTHER -> Wrap(ErrUnsupportedAuthType, a.Type)

\* validateConfig(config): nil or the error
validateConfig(config) ==
  LET a == config.Vault.Auth
  IN IF config.Vault.Address = "" THEN Sentinel(ErrMissingVaultAddress)
     ELSE IF a.Type = "" THEN Sentinel(ErrMissingAuthType)
     ELSE CASE a.Type = "token" ->
                 IF a.Token = "" /\ a.TokenPath = ""
                   THEN ErrorsNew("either token or tokenPath is required")
                   ELSE NilError
            [] a.Type = "kubernetes" ->
                 IF a.Role = "" THEN ErrorsNew("role is required") ELSE NilError
            [] a.Type = "approle" ->
                 LET hasDirectValues == a.RoleID # "" /\ a.SecretID # ""
                     hasPathValues == a.RoleIDPath # "" /\ a.SecretIDPath # ""
                 IN IF ~hasDirectValues /\ ~hasPathValues
                      THEN ErrorsNew("either roleId+secretId or roleIdPath+secretIdPath are required")
                      ELSE NilError
            [] OTHER -> Wrap(ErrUnsupportedAuthType, a.Type)

\* MergeConfig with a seeded fault: the two boolean fields are copied like the
\* others, only when the file's value is not the zero value.
MergeConfig_BoolsIfSet(config, tempConfig) ==
  [Vault |-> IF tempConfig.Vault.Address # "" THEN tempConfig.Vault ELSE config.Vault,
   ReconcileInterval |-> IF tempConfig.ReconcileInterval # 0
                           THEN tempConfig.ReconcileInterval
                           ELSE config.ReconcileInterval,
   DeleteVaultNamespaces |-> IF tempConfig.DeleteVaultNamespaces
                               THEN tempConfig.DeleteVaultNamespaces
                               ELSE config.DeleteVaultNamespaces,
   LeaderElection |-> IF tempConfig.LeaderElection
                        THEN tempConfig.LeaderElection
                        ELSE config.LeaderElection,
   NamespaceFormat |-> IF tempConfig.NamespaceFormat # <<>>
                         THEN tempConfig.NamespaceFormat
                         ELSE config.NamespaceFormat,
   MetricsBindAddress |-> IF tempConfig.MetricsBindAddress # ""
                            THEN tempConfig.MetricsBindAddress
                            ELSE config.MetricsBindAddress,
   IncludeNamespaces |-> IF tempConfig.IncludeNamespaces # <<>>
                           THEN tempConfig.IncludeNamespaces
                           ELSE config.IncludeNamespaces,
   ExcludeNamespaces |-> IF tempConfig.ExcludeNamespaces # <<>>
                           THEN tempConfig.ExcludeNamespaces
                           ELSE config.ExcludeNamespaces]

\* what LoadConfig makes of the values read from the file
MergeConfig(config, tempConfig) ==
  [Vault |-> IF tempConfig.Vault.Address # "" THEN tempConfig.Vault ELSE config.Vault,
   ReconcileInterval |-> IF tempConfig.ReconcileInterval # 0
                           THEN tempConfig.ReconcileInterval
                           ELSE config.ReconcileInterval,
   DeleteVaultNamespaces |-> tempConfig.DeleteVaultNamespaces,
   LeaderElection |-> tempConfig.LeaderElection,
   NamespaceFormat |-> IF tempConfig.NamespaceFormat # <<>>
                         THEN tempConfig.NamespaceFormat
                         ELSE config.NamespaceFormat,
   MetricsBindAddress |-> IF tempConfig.MetricsBindAddress # ""
                            THEN tempConfig.MetricsBindAddress
                            ELSE config.MetricsBindAddress,
   IncludeNamespaces |-> IF tempConfig.IncludeNamespaces # <<>>
                           THEN tempConfig.IncludeNamespaces
                           ELSE config.IncludeNamespaces,
   ExcludeNamespaces |-> IF tempConfig.ExcludeNamespaces # <<>>
                           THEN tempConfig.ExcludeNamespaces
                           ELSE config.ExcludeNamespaces]

\* LoadConfig with a seeded fault: the default configuration is validated
\* too.
LoadConfig_ValidatesDefault(path, file) ==
  LET config == IF path = "" \/ file.kind # "parsed"
                  THEN DefaultConfig
                  ELSE MergeConfig(DefaultConfig, file.tempConfig)
  IN IF path # "" /\ file.kind = "unreadable"
       THEN [config |-> NilConfig, err |-> ErrorsNew("failed to read config file")]
     ELSE IF path # "" /\ file.kind = "unparsable"
       THEN [config |-> NilConfig, err |-> ErrorsNew("failed to parse config file")]
     ELSE IF validateConfig(config) # NilError
       THEN [config |-> NilConfig,
             err |-> Errorf("invalid configuration", validateConfig(config))]
     ELSE [config |-> config, err |-> NilError]

\* LoadConfig(path): (config, err); file is what os.ReadFile and
\* yaml.Unmarshal make of the file at path
LoadConfig(path, file) ==
  IF path = ""
    THEN [config |-> DefaultConfig, err |-> NilError]
  ELSE IF file.kind = "unreadable"
    THEN [config |-> NilConfig, err |-> ErrorsNew("failed to read config file")]
  ELSE IF file.kind = "unparsable"
    THEN [config |-> NilConfig, err |-> ErrorsNew("failed to parse config file")]
  ELSE LET config == MergeConfig(DefaultConfig, file.tempConfig)
       IN IF validateConfig(config) # NilError
            THEN [config |-> NilConfig,
                  err |-> Errorf("invalid configuration", validateConfig(config))]
            ELSE [config |-> config, err |-> NilError]

\* a string field left empty or set
Strs == {"", "x"}

\* auth.type: none, the three supported methods, another one
AuthTypes == {"", "token", "kubernetes", "approle", "ldap"}

AuthConfigs ==
  {VaultAuthConfig(t, q[1], q[2], q[3], q[4], q[5], q[6], q[7]) :
     t \in AuthTypes, q \in [1..7 -> Strs]}

VaultAddress == "https://vault.example.org:8200"

\* the configurations validateConfig is applied to
ValidatedConfigs ==
  {[DefaultConfig EXCEPT !.Vault = VaultConfig(address, a)] :
     address \in {"", VaultAddress}, a \in AuthConfigs}

TokenAuth == VaultAuthConfig("token", "x", "", "", "", "", "", "")

\* what yaml.Unmarshal reads from a file
TempConfigs ==
  {FileConfig(VaultConfig(address, a), interval, del, fmt, metrics, leader, inc, <<>>) :
     address \in {"", VaultAddress}, a \in {NoAuth, TokenAuth},
     interval \in {0, 60}, del \in BOOLEAN, fmt \in {<<>>, FmtK8s},
     metrics \in {"", ":9090"}, leader \in BOOLEAN, inc \in {<<>>, <<PatApp>>}}

\* the file at path: it cannot be read, it is not YAML, or it parses
ConfigFiles ==
  {[kind |-> "unreadable", tempConfig |-> DefaultConfig],
   [kind |-> "unparsable", tempConfig |-> DefaultConfig]}
    \cup {[kind |-> "parsed", tempConfig |-> t] : t \in TempConfigs}

ConfigPaths == {"", "config.yaml"}

\* LoadConfig or validateConfig is about to be called
InitConfig ==
  /\ cfg = ControllerConfig(<<>>, <<>>, FmtPlain, <<>>, TRUE, 0)
  /\ EngineAtRest
  /\ client = NoClient
  /\ ex = [w \in Workers |-> NoCall]
  /\ app \in {[fn |-> "load", path |-> path, file |-> file] :
                path \in ConfigPaths, file \in ConfigFiles}
            \cup {[fn |-> "validate", config |-> config] : config \in ValidatedConfigs}

\* config, err := LoadConfig(app.path)
ApplyLoadConfig ==
  /\ app.fn = "load"
  /\ app' = [fn |-> "LoadConfig", path |-> app.path, file |-> app.file,
             out |-> LoadConfig(app.path, app.file)]
  /\ UNCHANGED <<engineVars, client, ex>>

\* err := validateConfig(app.config)
ApplyValidateConfig ==
  /\ app.fn = "validate"
  /\ app' = [fn |-> "validateConfig", config |-> app.config,
             err |-> validateConfig(app.config)]
  /\ UNCHANGED <<engineVars, client, ex>>

NextConfig ==
  \/ ApplyLoadConfig
  \/ ApplyValidateConfig

SpecConfig == InitConfig /\ [][NextConfig]_vars

\* --------------------------------------- the deadline of the invocation
\* err.Error() of a request cut short by the context's deadline
DeadlineTexts == {TextDeadline, TextDeadline4040}

\* what NamespaceExists returns for the path of n when its LIST request is
\* cut short by the deadline, the error reading text
ExpiredCheck(n, text) ==
  ExistsOutcome(ListResponse("error", 0, text), splitNamespacePath(PathOf(n)).child)

\* handleNamespaceCreation: the deadline passes during NamespaceExists. When
\* NamespaceExists returns the error the handler returns; when it returns
\* (false, nil) the handler calls CreateNamespace with the same context,
\* which fails at once.
CreationExistsExpires(n, text) ==
  /\ pc[n] = "crtExists"
  /\ ctx' = [ctx EXCEPT ![n] = "expired"]
  /\ IF ExpiredCheck(n, text).err
       THEN /\ Log(n, Call("Exists", PathOf(n), FALSE, FALSE, "check"))
            /\ Return(n, Result(BackoffSeconds, Wrap(ErrNamespaceCheck, VaultError)))
       ELSE /\ calls' = [calls EXCEPT ![n] =
                           @ \o << Call("Exists", PathOf(n), TRUE, FALSE, "check"),
                                   Call("Create", PathOf(n), FALSE, FALSE, "mutate") >>]
            /\ Return(n, Result(BackoffSeconds, Wrap(ErrNamespaceCreation, VaultError)))
  /\ Unclean(n)
  /\ UNCHANGED <<aux, cfg, cluster, vault, healthy, pending, obs, focus>>

\* handleNamespaceCreation: the deadline passes during CreateNamespace; the
\* request is given up, whether or not the backend has carried it out.
CreateNamespaceExpires(n) ==
  /\ pc[n] = "create"
  /\ ctx' = [ctx EXCEPT ![n] = "expired"]
  /\ vault' \in {vault, GwCreate(vault, PathOf(n))}
  /\ Log(n, Call("Create", PathOf(n), FALSE, FALSE, "mutate"))
  /\ Unclean(n)
  /\ Return(n, Result(BackoffSeconds, Wrap(ErrNamespaceCreation, VaultError)))
  /\ UNCHANGED <<aux, cfg, cluster, healthy, pending, obs, focus>>

\* Reconcile after handleNamespaceCreation returned nil: the deadline passes
\* during the k-th NamespaceExists call of the loop over nsList.Items; that
\* call and those after it return an error, each item is counted as pending,
\* and Reconcile returns RequeueAfter = ReconcileInterval and no error.
SweepExpires(n, k) ==
  /\ pc[n] = "sweep"
  /\ LET items == SelectSeq(AllNames, LAMBDA m : m \in cluster)
         managed == SelectSeq(items, LAMBDA m : shouldSyncNamespace(cfg, m))
     IN /\ k \in 1..Len(managed)
        /\ calls' = [calls EXCEPT ![n] =
                       @ \o SweepCalls(items, {managed[i] : i \in k..Len(managed)})]
  /\ ctx' = [ctx EXCEPT ![n] = "expired"]
  /\ Return(n, Result(cfg.ReconcileInterval, NilError))
  /\ UNCHANGED <<aux, cfg, cluster, vault, healthy, pending, obs, run, focus>>

\* handleNamespaceDeletion: the deadline passes during NamespaceExists. When
\* NamespaceExists returns the error the handler returns it; when it returns
\* (false, nil) the handler returns nil.
DeletionExistsExpires(n, text) ==
  /\ pc[n] = "delExists"
  /\ ctx' = [ctx EXCEPT ![n] = "expired"]
  /\ IF ExpiredCheck(n, text).err
       THEN /\ Log(n, Call("Exists", PathOf(n), FALSE, FALSE, "check"))
            /\ Return(n, Result(BackoffSeconds, Wrap(ErrNamespaceCheck, VaultError)))
       ELSE /\ Log(n, Call("Exists", PathOf(n), TRUE, FALSE, "check"))
            /\ Return(n, Result(0, NilError))
  /\ Unclean(n)
  /\ UNCHANGED <<aux, cfg, cluster, vault, healthy, pending, obs, focus>>

\* handleNamespaceDeletion: the deadline passes during DeleteNamespace; the
\* request is given up, whether or not the backend has carried it out.
DeleteNamespaceExpires(n) ==
  /\ pc[n] = "delete"
  /\ ctx' = [ctx EXCEPT ![n] = "expired"]
  /\ vault' \in {vault, GwDelete(vault, PathOf(n))}
  /\ Log(n, Call("Delete", PathOf(n), FALSE, FALSE, "mutate"))
  /\ Unclean(n)
  /\ Return(n, Result(BackoffSeconds, Wrap(ErrNamespaceDeletion, VaultError)))
  /\ UNCHANGED <<aux, cfg, cluster, healthy, pending, obs, focus>>

\* the engine with invocations that may run into their deadline
NextDeadline ==
  \/ Next
  \/ \E n \in Names :
       \/ \E text \in DeadlineTexts : CreationExistsExpires(n, text)
       \/ CreateNamespaceExpires(n)
       \/ \E k \in 1..Len(AllNames) : SweepExpires(n, k)
       \/ \E text \in DeadlineTexts : DeletionExistsExpires(n, text)
       \/ DeleteNamespaceExpires(n)

SpecDeadline == Init /\ [][NextDeadline]_vars

\* ------------------------------------------------------------------ claims
Sync(n) == shouldSyncNamespace(cfg, n)
Done(n) == pc[n] = "done"
Success(n) == result[n].err = NilError

\* the positions in the invocation's record of the calls of operation op
CallsOf(n, op) == {i \in DOMAIN calls[n] : calls[n][i].op = op}
\* the positions of the calls the two handlers issued (not the gauge loop)
HandlerCalls(n) == {i \in DOMAIN calls[n] : calls[n][i].site # "sweep"}
\* the existence check of the handler, first call of an invocation that has one
Check(n) == calls[n][1]
HasCheck(n) ==
  /\ Len(calls[n]) >= 1
  /\ Check(n).op = "Exists"
  /\ Check(n).site = "check"
  /\ Check(n).path = PathOf(n)
  /\ \A i \in DOMAIN calls[n] : calls[n][i].site = "check" => i = 1
\* the sentinels the returned error matches
Classes(n) == {s \in Sentinels : ErrorsIs(result[n].err, s)}

\* C1: a finished Present invocation of a name that is to be synced has made
\* the existence check on formatPath(name); it called Create iff that check
\* answered (false, nil), once, right after it and on the same path; and it
\* returned no error when Create succeeded or the check answered (true, nil).
C1_CreateIffAbsent ==
  \A n \in Names :
    (Done(n) /\ obs[n] = "present" /\ Sync(n)) =>
      /\ HasCheck(n)
      /\ (CallsOf(n, "Create") # {}) <=> (Check(n).ok /\ ~Check(n).val)
      /\ CallsOf(n, "Create") \subseteq {2}
      /\ \A i \in CallsOf(n, "Create") :
           calls[n][i].path = PathOf(n) /\ calls[n][i].path = Check(n).path
      /\ ((\E i \in CallsOf(n, "Create") : calls[n][i].ok) \/ (Check(n).ok /\ Check(n).val))
           => Success(n)

\* a Present invocation has created the backend namespace and returned
C1_Witness ==
  \E n \in Names :
    /\ Done(n) /\ obs[n] = "present" /\ Sync(n) /\ Success(n)
    /\ Len(calls[n]) >= 2 /\ calls[n][2].op = "Create" /\ calls[n][2].ok

\* C2: a finished Absent invocation with deletion enabled has made the
\* existence check on formatPath(name); it called Delete iff that check
\* answered (true, nil), once, right after it and on the same path; and it
\* returned no error and a zero RequeueAfter when Delete succeeded or the check
\* answered (false, nil).
C2_DeleteIffPresent ==
  \A n \in Names :
    (Done(n) /\ obs[n] = "absent" /\ cfg.DeleteVaultNamespaces) =>
      /\ HasCheck(n)
      /\ (CallsOf(n, "Delete") # {}) <=> (Check(n).ok /\ Check(n).val)
      /\ CallsOf(n, "Delete") \subseteq {2}
      /\ \A i \in CallsOf(n, "Delete") :
           calls[n][i].path = PathOf(n) /\ calls[n][i].path = Check(n).path
      /\ ((\E i \in CallsOf(n, "Delete") : calls[n][i].ok) \/ (Check(n).ok /\ ~Check(n).val))
           => (Success(n) /\ result[n].requeueAfter = 0)

\* an Absent invocation has deleted the backend namespace and returned
C2_Witness ==
  \E n \in Names :
    /\ Done(n) /\ obs[n] = "absent" /\ cfg.DeleteVaultNamespaces /\ Success(n)
    /\ Len(calls[n]) = 2 /\ calls[n][2].op = "Delete" /\ calls[n][2].ok

\* C3: an invocation that observed a present namespace that is not to be
\* synced makes no Gateway call and returns (Result{}, nil); "kube-system" is
\* such a namespace whenever there is no include pattern.
C3_SkippedNoGatewayCall ==
  /\ \A n \in Names :
       (obs[n] = "present" /\ ~Sync(n)) =>
         /\ calls[n] = <<>>
         /\ Done(n)
         /\ result[n] = Result(0, NilError)
  /\ cfg.IncludeNamespaces = <<>> => ~Sync(NsKube)

\* "kube-system" was found with no include pattern configured
C3_Witness ==
  /\ cfg.IncludeNamespaces = <<>>
  /\ Done(NsKube) /\ obs[NsKube] = "present" /\ NsKube \in cluster

\* C4: with deletion disabled an invocation that observed an absent namespace
\* makes no Gateway call and returns (Result{}, nil), and no invocation at all
\* is at, or has made, a Delete call.
C4_NoDeleteWhenDisabled ==
  ~cfg.DeleteVaultNamespaces =>
    \A n \in Names :
      /\ obs[n] = "absent" =>
           (calls[n] = <<>> /\ Done(n) /\ result[n] = Result(0, NilError))
      /\ CallsOf(n, "Delete") = {}
      /\ pc[n] \notin {"delExists", "delete"}

\* with deletion disabled, an Absent invocation has returned while the
\* backend namespace of its name exists
C4_Witness ==
  \E n \in Names :
    /\ ~cfg.DeleteVaultNamespaces
    /\ Done(n) /\ obs[n] = "absent"
    /\ GwExists(vault, PathOf(n))

\* the last call of a handler in the invocation's record failed, and was op
FailedAt(n, op) ==
  /\ HandlerCalls(n) # {}
  /\ LET last == calls[n][Len(calls[n])]
     IN last.site # "sweep" /\ ~last.ok /\ last.op = op

\* C5: the error an invocation returns after a Gateway call of its handler
\* failed matches the sentinel of that call and no other: ErrNamespaceCheck
\* for Exists, ErrNamespaceCreation for Create, ErrNamespaceDeletion for
\* Delete, whether the namespace was observed present or absent; and an error
\* that matches a sentinel comes from such a failed call.
C5_ErrorClassifiedByCall ==
  \A n \in Names :
    Done(n) =>
      /\ FailedAt(n, "Exists") => Classes(n) = {ErrNamespaceCheck}
      /\ FailedAt(n, "Create") => Classes(n) = {ErrNamespaceCreation}
      /\ FailedAt(n, "Delete") => Classes(n) = {ErrNamespaceDeletion}
      /\ Cardinality(Classes(n)) <= 1
      /\ ErrNamespaceCheck \in Classes(n) => FailedAt(n, "Exists")
      /\ ErrNamespaceCreation \in Classes(n) => (FailedAt(n, "Create") /\ obs[n] = "present")
      /\ ErrNamespaceDeletion \in Classes(n) => (FailedAt(n, "Delete") /\ obs[n] = "absent")
      /\ (\E op \in {"Exists", "Create", "Delete"} : FailedAt(n, op))
           => result[n].err.cause = VaultError

\* the existence check failed in an Absent invocation while a Create failed
\* in a Present one
C5_Witness ==
  \E n, m \in Names :
    /\ Done(n) /\ obs[n] = "absent" /\ FailedAt(n, "Exists")
    /\ Done(m) /\ obs[m] = "present" /\ FailedAt(m, "Create")

\* C6 (state part): an invocation that returns an error matching one of the
\* three sentinels returns RequeueAfter = 30 s with it.
C6_RequeueOnError ==
  \A n \in Names :
    (Done(n) /\ Classes(n) # {}) =>
      (result[n].requeueAfter = BackoffSeconds /\ result[n].requeueAfter > 0)

\* C6 (state part): a queued name with no invocation under way can be
\* delivered, whatever was returned before.
C6_Deliverable ==
  \A n \in Names : (pc[n] = "idle" /\ pending[n]) => ENABLED Deliver(n)

\* C6 (step part): when such an invocation is over the name is idle and
\* queued again, and the other names are where they were.
C6_StillServing ==
  \A n \in Names :
    (Done(n) /\ Classes(n) # {} /\ pc'[n] # "done") =>
      /\ pc'[n] = "idle" /\ pending'[n]
      /\ \A m \in Names \ {n} : pc'[m] = pc[m] /\ pending'[m] = pending[m]

\* C6: every invocation that ends with a CheckFailed, CreationFailed or
\* DeletionFailed error returns the 30 s RequeueAfter with it, and none of
\* these errors stops the engine from serving later invocations.
C6_ErrorsAreRetryable ==
  [](C6_RequeueOnError /\ C6_Deliverable) /\ [][C6_StillServing]_vars

\* a Delete failed and the invocation returned
C6_Witness ==
  \E n \in Names :
    /\ Done(n) /\ FailedAt(n, "Delete")
    /\ ErrNamespaceDeletion \in Classes(n)
    /\ result[n].requeueAfter = BackoffSeconds

\* C7: after an Exists call that returned an error the invocation issues no
\* Create and no Delete and no further Exists on that path; when it was the
\* handler's check, it is the last call and Reconcile returns
\* ErrNamespaceCheck.
C7_NoRetryAfterCheckFailure ==
  \A n \in Names :
    \A i \in CallsOf(n, "Exists") :
      ~calls[n][i].ok =>
        /\ \A j \in DOMAIN calls[n] :
             j > i => (calls[n][j].op = "Exists" /\ calls[n][j].path # calls[n][i].path)
        /\ calls[n][i].site = "check" =>
             /\ i = 1 /\ Len(calls[n]) = 1
             /\ Done(n)
             /\ Classes(n) = {ErrNamespaceCheck}
             /\ obs[n] \in {"present", "absent"}

\* the existence check failed in a Present and in an Absent invocation
C7_Witness ==
  \E n, m \in Names :
    /\ obs[n] = "present" /\ Len(calls[n]) = 1 /\ ~calls[n][1].ok
    /\ obs[m] = "absent" /\ Len(calls[m]) = 1 /\ ~calls[m][1].ok

\* C8 is about the runs of Present invocations of a name that is to be synced
InPresentRun == focus # Nobody /\ run.kind = "present" /\ Sync(focus)

\* C8: in a run of successive Present invocations of a name that is to be
\* synced (whatever the invocations of the other names do meanwhile) Create
\* succeeds at most once and never when the backend namespace existed at the
\* start; no Create is issued once one has succeeded, and the backend
\* namespace then exists; and when no call fails and the namespace did not
\* exist at the start, Create is called exactly once: the first invocation
\* calls it, every later one returns success without calling it.
C8_CreateOnce ==
  InPresentRun =>
    /\ run.creates <= 1
    /\ run.existed0 => run.creates = 0
    /\ pc[focus] = "create" => (run.creates = 0 /\ ~run.existed0)
    /\ run.creates >= 1 => GwExists(vault, PathOf(focus))
    /\ (run.clean /\ ~run.existed0 /\ run.inv >= 1) => run.creates = 1
    /\ (run.clean /\ Done(focus)) =>
         /\ Success(focus)
         /\ run.inv >= 1 => CallsOf(focus, "Create") = {}
         /\ (run.inv = 0 /\ ~run.existed0) =>
              (CallsOf(focus, "Create") = {2} /\ calls[focus][2].ok)

\* the third Present invocation of a run that began without the backend
\* namespace has returned, while another name has an invocation under way
C8_Witness ==
  /\ InPresentRun /\ run.clean /\ ~run.existed0
  /\ run.inv >= 2 /\ run.creates = 1
  /\ Done(focus) /\ Success(focus) /\ CallsOf(focus, "Create") = {}
  /\ \E m \in Names \ {focus} : pc[m] \notin {"idle", "done"}

\* C9 is about the runs of Absent invocations with deletion enabled
InAbsentRun == focus # Nobody /\ run.kind = "absent" /\ cfg.DeleteVaultNamespaces

\* C9: in a run of successive Absent invocations of a name with deletion
\* enabled Delete succeeds at most once and never when the backend namespace
\* did not exist at the start; no Delete is issued once one has succeeded, and
\* the backend namespace then does not exist; and when no call fails and the
\* namespace existed at the start, Delete is called exactly once: the first
\* invocation calls it, every later one returns (Result{}, nil) without
\* calling it.
C9_DeleteOnce ==
  InAbsentRun =>
    /\ run.deletes <= 1
    /\ ~run.existed0 => run.deletes = 0
    /\ pc[focus] = "delete" => (run.deletes = 0 /\ run.existed0)
    /\ run.deletes >= 1 => ~GwExists(vault, PathOf(focus))
    /\ (run.clean /\ run.existed0 /\ run.inv >= 1) => run.deletes = 1
    /\ (run.clean /\ Done(focus)) =>
         /\ result[focus] = Result(0, NilError)
         /\ run.inv >= 1 => CallsOf(focus, "Delete") = {}
         /\ (run.inv = 0 /\ run.existed0) =>
              (CallsOf(focus, "Delete") = {2} /\ calls[focus][2].ok)

\* the second Absent invocation of a run that began with the backend
\* namespace has returned without a Delete
C9_Witness ==
  /\ InAbsentRun /\ run.clean /\ run.existed0
  /\ run.inv = 1 /\ run.deletes = 1
  /\ Done(focus) /\ Success(focus)
  /\ Len(calls[focus]) = 1 /\ ~calls[focus][1].val

\* C10: whenever a request is queued for a cluster namespace that exists and
\* is to be synced, then, with requests delivered, errors requeued and calls
\* failing only for so long, the backend namespace at formatPath(name) exists
\* at some later point, unless the cluster namespace is removed first.
C10_CreationConverges ==
  \A n \in Names :
    (n \in cluster /\ Sync(n) /\ pending[n])
      ~> (GwExists(vault, PathOf(n)) \/ n \notin cluster)

\* after the calls stopped failing a Present invocation has created the
\* backend namespace of a cluster namespace that is still there
C10_Witness ==
  \E n \in Names :
    /\ healthy /\ n \in cluster /\ Sync(n)
    /\ Done(n) /\ obs[n] = "present" /\ CallsOf(n, "Create") = {2} /\ calls[n][2].ok
    /\ GwExists(vault, PathOf(n))

MatchesSome(name, patterns) ==
  \E k \in DOMAIN patterns : ~patterns[k].bad /\ MatchString(patterns[k], name).match

\* the decision of the sync policy, in the order the policy is stated
ReferenceDecision(name, include, exclude) ==
  CASE MatchesSome(name, systemPatterns) -> MatchesSome(name, include)
    [] ~MatchesSome(name, systemPatterns) /\ MatchesSome(name, exclude) -> FALSE
    [] ~MatchesSome(name, systemPatterns) /\ ~MatchesSome(name, exclude)
         /\ include # <<>> -> MatchesSome(name, include)
    [] OTHER -> TRUE

AppliedShouldSync == app.fn = "shouldSync"

\* C12: for every name and every include and exclude list shouldSync returns
\* the reference decision: system name -> include match; else exclude match ->
\* false; else non-empty include list -> include match; else true. With no
\* include and no exclude pattern every name that is not a system name is
\* synced.
C12_ShouldSyncIsReference ==
  AppliedShouldSync =>
    /\ app.outBool =
         ReferenceDecision(app.name, cfg.IncludeNamespaces, cfg.ExcludeNamespaces)
    /\ (cfg.IncludeNamespaces = <<>> /\ cfg.ExcludeNamespaces = <<>>
          /\ ~MatchesSome(app.name, systemPatterns)) => app.outBool

\* shouldSync was applied to a system name that both an include and an
\* exclude pattern match, and returned true
C12_Witness ==
  /\ AppliedShouldSync /\ app.outBool
  /\ MatchesSome(app.name, systemPatterns)
  /\ MatchesSome(app.name, cfg.IncludeNamespaces)
  /\ MatchesSome(app.name, cfg.ExcludeNamespaces)

\* s begins with pre
HasPrefix(s, pre) == Len(s) >= Len(pre) /\ SubSeq(s, 1, Len(pre)) = pre

\* the system names: "kube-...", "openshift-...", "openshift", "default"
IsSystemName(name) ==
  \/ HasPrefix(name, <<"k","u","b","e","-">>)
  \/ HasPrefix(name, <<"o","p","e","n","s","h","i","f","t","-">>)
  \/ name = NsOpenshift
  \/ name = NsDefault

\* C13: shouldSync is false for a system name that no include pattern
\* matches, whatever the exclude patterns; a name that is not a system name
\* ("openshift2", "defaults", "my-kube-x") matches no system pattern and is
\* decided by the exclude and include patterns alone.
C13_SystemNamesOptIn ==
  AppliedShouldSync =>
    /\ (IsSystemName(app.name) /\ ~MatchesSome(app.name, cfg.IncludeNamespaces))
         => ~app.outBool
    /\ ~IsSystemName(app.name) =>
         /\ ~matchesAnyPattern(app.name, systemPatterns)
         /\ app.outBool =
              (IF MatchesSome(app.name, cfg.ExcludeNamespaces) THEN FALSE
               ELSE IF cfg.IncludeNamespaces # <<>>
                 THEN MatchesSome(app.name, cfg.IncludeNamespaces)
               ELSE TRUE)
    /\ \A n \in {NsOpenshift2, NsDefaults, NsMyKubeX} : ~IsSystemName(n)

\* shouldSync returned false for "openshift" under include and exclude
\* patterns none of which matches it
C13_Witness ==
  /\ AppliedShouldSync
  /\ app.name = NsOpenshift /\ ~app.outBool
  /\ cfg.ExcludeNamespaces # <<>> /\ cfg.IncludeNamespaces # <<>>
  /\ ~MatchesSome(app.name, cfg.ExcludeNamespaces)

\* the elements of a sequence
Range(q) == {q[k] : k \in DOMAIN q}

AppliedMatches == app.fn = "matches"

\* C14: matches(name, patterns) is true iff some pattern of the list matches
\* name; it is false for the empty list; and every list with the same
\* patterns, in any order and with any of them repeated, gives the same
\* answer.
C14_MatchesIsDisjunction ==
  AppliedMatches =>
    LET patterns == cfg.IncludeNamespaces
    IN /\ app.outBool = MatchesSome(app.name, patterns)
       /\ patterns = <<>> => ~app.outBool
       /\ \A qs \in SeqsUpTo(Range(patterns), Len(patterns) + 1) :
            Range(qs) = Range(patterns) =>
              matchesAnyPattern(app.name, qs) = app.outBool

\* matches returned true for a list of two different patterns of which only
\* the second matches the name
C14_Witness ==
  /\ AppliedMatches /\ app.outBool
  /\ Len(cfg.IncludeNamespaces) = 2
  /\ cfg.IncludeNamespaces[1] # cfg.IncludeNamespaces[2]
  /\ ~MatchString(cfg.IncludeNamespaces[1], app.name).match
  /\ MatchString(cfg.IncludeNamespaces[2], app.name).match

\* C15: with a pattern that does not compile in the configuration, matches
\* answers as if that pattern were not in the list, so a well-formed pattern
\* of the same list still matches; shouldSync answers the reference decision;
\* and Reconcile goes on to the Gateway for a name that is to be synced and
\* returns no error but that of a failed call.
C15_MalformedPatternIsNoMatch ==
  \A n \in Names :
    /\ matchesAnyPattern(n, cfg.IncludeNamespaces) = MatchesSome(n, cfg.IncludeNamespaces)
    /\ matchesAnyPattern(n, cfg.ExcludeNamespaces) = MatchesSome(n, cfg.ExcludeNamespaces)
    /\ Sync(n) = ReferenceDecision(n, cfg.IncludeNamespaces, cfg.ExcludeNamespaces)
    /\ n = NsApp => Sync(n)
    /\ (Done(n) /\ obs[n] = "present" /\ Sync(n)) => HasCheck(n)
    /\ (Done(n) /\ ~Success(n)) =>
         (obs[n] = "error" \/ \E op \in {"Exists", "Create", "Delete"} : FailedAt(n, op))

\* the first include pattern does not compile, the second matches "app", and
\* a Present invocation for "app" has created its backend namespace
C15_Witness ==
  /\ Len(cfg.IncludeNamespaces) = 2
  /\ MatchString(cfg.IncludeNamespaces[1], NsApp).err
  /\ MatchString(cfg.IncludeNamespaces[2], NsApp).match
  /\ Done(NsApp) /\ obs[NsApp] = "present" /\ Success(NsApp)
  /\ CallsOf(NsApp, "Create") = {2} /\ calls[NsApp][2].ok

AppliedFormatPath == app.fn = "formatPath"

\* the positions of the slots "%s" of a format
Slots(format) ==
  {i \in 1..(Len(format) - 1) : format[i] = "%" /\ format[i + 1] = "s"}

\* name put into the one slot of format
Substitute(format, name) ==
  LET i == CHOOSE j \in Slots(format) : TRUE
  IN SubSeq(format, 1, i - 1) \o name \o SubSeq(format, i + 2, Len(format))

K8sDash == <<"k","8","s","-">>

\* C16: with an empty namespaceRoot formatPath returns name substituted into
\* the one slot of the format, and nothing else: "k8s-" + name for the format
\* "k8s-%s", with the leading and the trailing '/' of the format kept; for an
\* empty format it returns name.
C16_NoRootIsSubstitution ==
  (AppliedFormatPath /\ cfg.NamespaceRoot = <<>>) =>
    /\ Cardinality(Slots(cfg.NamespaceFormat)) = 1 =>
         app.outPath = Substitute(cfg.NamespaceFormat, app.name)
    /\ cfg.NamespaceFormat = FmtK8s => app.outPath = K8sDash \o app.name
    /\ cfg.NamespaceFormat = FmtSlashK8s => app.outPath = <<"/">> \o K8sDash \o app.name
    /\ cfg.NamespaceFormat = FmtK8sSlash => app.outPath = K8sDash \o app.name \o <<"/">>
    /\ cfg.NamespaceFormat = <<>> => app.outPath = app.name

\* formatPath was applied with no root to "test-ns" and a format that begins
\* with '/', and returned a path that begins with '/'
C16_Witness ==
  /\ AppliedFormatPath /\ cfg.NamespaceRoot = <<>>
  /\ app.name = NsTestNs /\ cfg.NamespaceFormat = FmtSlashK8s
  /\ app.outPath[1] = "/"

\* "admin/k8s-test-ns", "/admin/k8s-test-ns"
AdminK8sTestNs == RootBareAdmin \o <<"/">> \o K8sDash \o NsTestNs
SlashAdminK8sTestNs == <<"/">> \o AdminK8sTestNs

\* s has no leading '/', no trailing '/' and no "//"
Normalized(s) ==
  /\ s # <<>> => (s[1] # "/" /\ s[Len(s)] # "/")
  /\ \A i \in 1..(Len(s) - 1) : ~(s[i] = "/" /\ s[i + 1] = "/")

\* root without its trailing '/'s
RootPrefix(root) ==
  CHOOSE pre \in {SubSeq(root, 1, k) : k \in 0..Len(root)} :
    /\ pre # <<>> => pre[Len(pre)] # "/"
    /\ \A i \in (Len(pre) + 1)..Len(root) : root[i] = "/"

\* C17 as stated: with a namespaceRoot set the derived path is normalized (no
\* leading '/', no trailing '/', no "//") and begins with the root, and
\* formatPath("test-ns", {"k8s-%s", "/admin/"}) is "admin/k8s-test-ns".
C17_PathIsNormalized ==
  (AppliedFormatPath /\ cfg.NamespaceRoot # <<>>) =>
    /\ Normalized(app.outPath)
    /\ (app.name = NsTestNs /\ cfg.NamespaceFormat = FmtK8s /\ cfg.NamespaceRoot = RootAdmin)
         => app.outPath = AdminK8sTestNs

\* C17 as amended: with a namespaceRoot set the derived path begins with the
\* root without its trailing '/', followed by one '/' and no second one; it
\* begins with '/' exactly when the root does, so
\* formatPath("test-ns", {"k8s-%s", "/admin/"}) is "/admin/k8s-test-ns"; and
\* the key the Gateway addresses the namespace by has no leading and no
\* trailing '/': there it is "admin/k8s-test-ns".
C17_RootAppliedSlashKept ==
  (AppliedFormatPath /\ cfg.NamespaceRoot # <<>>) =>
    LET pre == RootPrefix(cfg.NamespaceRoot)
        out == app.outPath
    IN /\ HasPrefix(out, pre \o <<"/">>)
       /\ Len(out) > Len(pre) + 1 => out[Len(pre) + 2] # "/"
       /\ out[1] = "/" <=> (cfg.NamespaceRoot[1] = "/")
       /\ GwKey(out) # <<>> => (GwKey(out)[1] # "/" /\ GwKey(out)[Len(GwKey(out))] # "/")
       /\ (app.name = NsTestNs /\ cfg.NamespaceFormat = FmtK8s /\ cfg.NamespaceRoot = RootAdmin)
            => (out = SlashAdminK8sTestNs /\ GwKey(out) = AdminK8sTestNs)

\* formatPath was applied to "test-ns" with the format "k8s-%s" and the root
\* "/admin/"
C17_Witness ==
  /\ AppliedFormatPath
  /\ app.name = NsTestNs /\ cfg.NamespaceFormat = FmtK8s /\ cfg.NamespaceRoot = RootAdmin
  /\ app.outPath = SlashAdminK8sTestNs

\* C18: with a namespaceRoot set the path is the same whether or not the
\* root ends with '/' and whether or not the format begins with '/', and it
\* has exactly one '/' between the two parts: the roots "/admin" and "/admin/"
\* with the format "k8s-%s", and the root "/admin" with the format "/k8s-%s",
\* all give "/admin/k8s-test-ns" for "test-ns".
C18_JoinIgnoresSlashes ==
  (AppliedFormatPath /\ cfg.NamespaceRoot # <<>>) =>
    /\ app.outPath =
         formatVaultNamespacePath([cfg EXCEPT !.NamespaceRoot = @ \o <<"/">>], app.name)
    /\ cfg.NamespaceFormat # <<>> =>
         app.outPath =
           formatVaultNamespacePath([cfg EXCEPT !.NamespaceFormat = <<"/">> \o @], app.name)
    /\ LET pre == RootPrefix(cfg.NamespaceRoot)
       IN /\ Len(app.outPath) > Len(pre)
          /\ app.outPath[Len(pre) + 1] = "/"
          /\ Len(app.outPath) > Len(pre) + 1 => app.outPath[Len(pre) + 2] # "/"
    /\ (app.name = NsTestNs /\ cfg.NamespaceRoot \in {RootSlashAdmin, RootAdmin}
          /\ cfg.NamespaceFormat \in {FmtK8s, FmtSlashK8s})
         => app.outPath = SlashAdminK8sTestNs

\* formatPath was applied to "test-ns" with the root "/admin" and the format
\* "/k8s-%s"
C18_Witness ==
  /\ AppliedFormatPath
  /\ app.name = NsTestNs /\ cfg.NamespaceRoot = RootSlashAdmin
  /\ cfg.NamespaceFormat = FmtSlashK8s
  /\ app.outPath = SlashAdminK8sTestNs

\* C19: when the calls on the client follow one another, the client's
\* namespace is back at its value from before the call whenever no call is
\* under way, whichever way NamespaceExists (found, not found, 404, nil
\* response, malformed response, transport error) or authenticate (logged
\* in, failed, unsupported method) came back.
C19_NamespaceRestored ==
  /\ NoCallInProgress => client.namespace = client.initial
  /\ \A w \in Workers :
       ex[w].pc = "returned" =>
         /\ ex[w].op = "NamespaceExists" =>
              ex[w].exit \in {"found", "notFound", "404", "nil", "malformed", "transport"}
         /\ ex[w].op = "authenticate" => ex[w].exit \in Logins

\* NamespaceExists has returned after a transport error, having listed in a
\* namespace that is not the client's own
C19_Witness ==
  \E w \in Workers :
    /\ ex[w].pc = "returned" /\ ex[w].op = "NamespaceExists"
    /\ ex[w].exit = "transport"
    /\ splitNamespacePath(ex[w].path).parent # client.initial
    /\ client.namespace = client.initial

\* C20: once all the concurrent NamespaceExists calls on the shared client
\* have returned, the client's namespace is its value from before any of them
\* started.
C20_NoLeakUnderConcurrency ==
  (\A w \in Workers : ex[w].pc = "returned") => client.namespace = client.initial

\* C21: for every interleaving of the NamespaceExists calls on the shared
\* client, the listing a call issues is made in the parent of its own path,
\* and a listing that was answered reports whether its own path exists.
C21_ListingScopedToOwnPath ==
  \A w \in Workers :
    (ex[w].op = "NamespaceExists" /\ ex[w].pc = "listed") =>
      /\ ex[w].listedIn = splitNamespacePath(ex[w].path).parent
      /\ ex[w].exit \in {"found", "notFound"} =>
           (ex[w].answer <=> GwExists(vault, ex[w].path))

\* the Gateway calls the handler of the invocation of n made for n's own
\* path, in order, each as (op, ok, val)
OwnResponses(n) ==
  LET own == SelectSeq(calls[n], LAMBDA c : c.site # "sweep" /\ c.path = PathOf(n))
  IN [i \in DOMAIN own |-> <<own[i].op, own[i].ok, own[i].val>>]

\* the outcome that the observation of a name and the Gateway's responses for
\* its own path call for
OutcomeFor(observed, sync, responses) ==
  CASE observed = "error" -> Result(0, ApiError)
    [] observed = "present" /\ ~sync -> Result(0, NilError)
    [] observed = "present" /\ sync ->
         (CASE responses = << <<"Exists", FALSE, FALSE>> >> ->
                 Result(BackoffSeconds, Wrap(ErrNamespaceCheck, VaultError))
            [] responses = << <<"Exists", TRUE, FALSE>>, <<"Create", FALSE, FALSE>> >> ->
                 Result(BackoffSeconds, Wrap(ErrNamespaceCreation, VaultError))
            [] OTHER -> Result(cfg.ReconcileInterval, NilError))
    [] observed = "absent" ->
         (CASE responses = << <<"Exists", FALSE, FALSE>> >> ->
                 Result(BackoffSeconds, Wrap(ErrNamespaceCheck, VaultError))
            [] responses = << <<"Exists", TRUE, TRUE>>, <<"Delete", FALSE, FALSE>> >> ->
                 Result(BackoffSeconds, Wrap(ErrNamespaceDeletion, VaultError))
            [] OTHER -> Result(0, NilError))

\* calls of the invocation of n that failed and were not made for n's path
ForeignFailures(n) ==
  {i \in DOMAIN calls[n] : ~calls[n][i].ok /\ calls[n][i].path # PathOf(n)}

\* C22: the outcome of a finished invocation of a name is the one its own
\* observation and the Gateway's responses for its own path call for, whatever
\* the sweep met for other names and whatever the other names' invocations
\* returned or are doing.
C22_FailureIsolation ==
  \A n \in Names :
    Done(n) =>
      /\ result[n] = OutcomeFor(obs[n], Sync(n), OwnResponses(n))
      /\ \A i \in DOMAIN calls[n] :
           calls[n][i].site # "sweep" => calls[n][i].path = PathOf(n)

\* a Present invocation returned success although its sweep met a Gateway
\* failure for another name, while the other name's invocation had failed
C22_Witness ==
  \E n \in Names : \E m \in Names \ {n} :
    /\ Done(n) /\ obs[n] = "present" /\ Success(n)
    /\ ForeignFailures(n) # {}
    /\ Done(m) /\ ~Success(m)

\* worker w has a NamespaceExists call whose LIST request has come back
Answered(w) == ex[w].op = "NamespaceExists" /\ ex[w].pc \in {"listed", "returned"}

\* the response carries a list of keys one of which, without its trailing
\* '/', is the child
KeyMatches(resp, child) ==
  /\ resp.kind = "keys"
  /\ \E k \in resp.keys :
       (IF k # <<>> /\ k[Len(k)] = "/" THEN SubSeq(k, 1, Len(k) - 1) ELSE k) = child

\* C23: NamespaceExists returns (true, nil) iff the listing came back with a
\* list of keys one of which equals the child after removing a trailing '/',
\* and returns (false, nil) when the listing was answered with 404, with a
\* nil or data-less response, or with keys none of which matches.
C23_NonExistenceIsNoError ==
  \A w \in Workers :
    Answered(w) =>
      LET resp == ex[w].resp
          child == splitNamespacePath(ex[w].path).child
      IN /\ (ex[w].answer /\ ~ex[w].err) <=> KeyMatches(resp, child)
         /\ ( \/ resp.kind = "error" /\ resp.status = 404
              \/ resp.kind \in {"nil", "noData"}
              \/ resp.kind = "keys" /\ ~KeyMatches(resp, child) )
            => (~ex[w].answer /\ ~ex[w].err)

\* one call has returned (true, nil) on the key "app/" for the child "app"
\* and another (false, nil) on a 404 answer
C23_Witness ==
  \E w, u \in Workers :
    /\ ex[w].op = "NamespaceExists" /\ ex[w].pc = "returned"
    /\ ex[w].answer /\ ~ex[w].err
    /\ (PathApp \o <<"/">>) \in ex[w].resp.keys
    /\ ex[u].op = "NamespaceExists" /\ ex[u].pc = "returned"
    /\ ex[u].resp.status = 404 /\ ~ex[u].answer /\ ~ex[u].err

\* C24: a LIST request that failed otherwise than by a 404 answer of the
\* server (the token was refused, no connection, the deadline passed) makes
\* NamespaceExists return a non-nil error, never (false, nil).
C24_FailureIsAnError ==
  \A w \in Workers :
    (Answered(w) /\ ex[w].resp.kind = "error" /\ ex[w].resp.status # 404) =>
      ex[w].err

\* C25: a finished invocation whose context ran into its deadline during a
\* Gateway call has returned an error that is CheckFailed, CreationFailed or
\* DeletionFailed together with a non-zero requeueAfter; it has not returned
\* success.
C25_CancellationSurfaces ==
  \A n \in Names :
    (Done(n) /\ ctx[n] = "expired") =>
      /\ ~Success(n)
      /\ Classes(n) # {}
      /\ result[n].requeueAfter > 0

\* C26: LoadConfig("") returns no error and the default configuration
\* (ReconcileInterval 300, DeleteVaultNamespaces true, MetricsBindAddress
\* ":8080", LeaderElection true, NamespaceFormat "%s"), which validateConfig
\* would reject: validation was not run.
C26_EmptyPathGivesDefaults ==
  (app.fn = "LoadConfig" /\ app.path = "") =>
    /\ app.out.err = NilError
    /\ app.out.config # NilConfig
    /\ app.out.config.ReconcileInterval = 300
    /\ app.out.config.DeleteVaultNamespaces = TRUE
    /\ app.out.config.MetricsBindAddress = ":8080"
    /\ app.out.config.LeaderElection = TRUE
    /\ app.out.config.NamespaceFormat = <<"%", "s">>
    /\ app.out.config.Vault.Address = ""

\* LoadConfig("") has returned, whatever file there is
C26_Witness ==
  /\ app.fn = "LoadConfig" /\ app.path = ""
  /\ app.file.kind = "unreadable"
  /\ app.out.err = NilError

\* the credentials the auth method a.Type needs are there
CredentialsPresent(a) ==
  \/ a.Type = "token" /\ (a.Token # "" \/ a.TokenPath # "")
  \/ a.Type = "kubernetes" /\ a.Role # ""
  \/ a.Type = "approle" /\ ( \/ (a.RoleID # "" /\ a.SecretID # "")
                             \/ (a.RoleIDPath # "" /\ a.SecretIDPath # "") )

\* C27: validateConfig returns nil iff Vault.Address is non-empty, Auth.Type
\* is token, kubernetes or approle and the credentials of that type are
\* present; with an empty address it returns ErrMissingVaultAddress whatever
\* the auth fields are, and with an address and a type it does not know it
\* returns an error that is ErrUnsupportedAuthType.
C27_ValidateConfig ==
  app.fn = "validateConfig" =>
    LET address == app.config.Vault.Address
        a == app.config.Vault.Auth
    IN /\ (app.err = NilError) <=>
            (/\ address # ""
             /\ a.Type \in {"token", "kubernetes", "approle"}
             /\ CredentialsPresent(a))
       /\ address = "" => app.err = Sentinel(ErrMissingVaultAddress)
       /\ (address # "" /\ a.Type \notin {"", "token", "kubernetes", "approle"}) =>
            ErrorsIs(app.err, ErrUnsupportedAuthType)

\* validateConfig has rejected an approle configuration that has a roleId and
\* a secretIdPath but neither pair complete
C27_Witness ==
  /\ app.fn = "validateConfig"
  /\ app.config.Vault.Address # ""
  /\ app.config.Vault.Auth.Type = "approle"
  /\ app.config.Vault.Auth.RoleID # "" /\ app.config.Vault.Auth.SecretID = ""
  /\ app.config.Vault.Auth.RoleIDPath = "" /\ app.config.Vault.Auth.SecretIDPath # ""
  /\ app.err # NilError

\* an include pattern and an exclude pattern both match the name
MatchesBoth(name) ==
  /\ MatchesSome(name, cfg.IncludeNamespaces)
  /\ MatchesSome(name, cfg.ExcludeNamespaces)

\* C28: a system name that an include pattern and an exclude pattern both
\* match is synced, and a name that is not a system name and that both match
\* is not synced.
C28_PrecedenceOnOverlap ==
  (AppliedShouldSync /\ MatchesBoth(app.name)) =>
    (app.outBool <=> IsSystemName(app.name))

\* shouldSync returned false for "my-kube-x", which is not a system name and
\* which the include and the exclude pattern "kube-" both match
C28_Witness ==
  /\ AppliedShouldSync /\ ~app.outBool
  /\ app.name = NsMyKubeX
  /\ cfg.IncludeNamespaces = <<PatKubeAny>>
  /\ cfg.ExcludeNamespaces = <<PatKubeAny>>

\* C29: in every invocation, CreateNamespace is called only after the
\* namespace was observed present and DeleteNamespace only after it was
\* observed absent, so a Present invocation calls no Delete and an Absent one
\* no Create; and CreateNamespace is called only right after a NamespaceExists
\* for the same path that answered false, never for a path reported to exist.
C29_NoCrossStateMutation ==
  \A n \in Names :
    /\ \A i \in DOMAIN calls[n] :
         /\ calls[n][i].op = "Create" =>
              /\ obs[n] = "present"
              /\ i > 1
              /\ calls[n][i - 1].op = "Exists"
              /\ calls[n][i - 1].path = calls[n][i].path
              /\ calls[n][i - 1].ok /\ ~calls[n][i - 1].val
         /\ calls[n][i].op = "Delete" => obs[n] = "absent"
         /\ calls[n][i].op \in {"Exists", "Create", "Delete"}
    /\ pc[n] = "create" => obs[n] = "present"
    /\ pc[n] = "delete" => obs[n] = "absent"

\* a Present invocation has finished without a Create, NamespaceExists having
\* answered true, while an Absent invocation of the other name has called
\* Delete
C29_Witness ==
  \E n \in Names : \E m \in Names \ {n} :
    /\ Done(n) /\ obs[n] = "present"
    /\ HasCheck(n) /\ Check(n).ok /\ Check(n).val
    /\ CallsOf(n, "Create") = {}
    /\ obs[m] = "absent" /\ CallsOf(m, "Delete") # {}

\* the positions of the Create and Delete calls of the invocation of n
Mutations(n) == CallsOf(n, "Create") \cup CallsOf(n, "Delete")

\* C30 (state part): an invocation issues at most one Create or Delete; a
\* call of a handler that failed is the last call of the invocation, which
\* has returned; and whatever call failed, no later call repeats it and no
\* later call is a Create or a Delete.
C30_OneMutationNoRetry ==
  \A n \in Names :
    /\ Cardinality(Mutations(n)) <= 1
    /\ \A i \in DOMAIN calls[n] :
         ~calls[n][i].ok =>
           /\ calls[n][i].site # "sweep" => (i = Len(calls[n]) /\ Done(n))
           /\ \A j \in DOMAIN calls[n] :
                j > i =>
                  /\ j \notin Mutations(n)
                  /\ ~(calls[n][j].op = calls[n][i].op /\ calls[n][j].path = calls[n][i].path)

\* C30 (step part): a step in which an invocation records a failed call
\* leaves the backend as it was.
C30_FailureLeavesBackend ==
  \A n \in Names :
    (\E i \in DOMAIN calls'[n] : i > Len(calls[n]) /\ ~calls'[n][i].ok) => vault' = vault

\* C30: within one invocation at most one Create or Delete is issued, a
\* failed Gateway call is not issued again and is followed by no Create or
\* Delete, and the backend stays as the last successful operation left it.
C30_SingleShot ==
  []C30_OneMutationNoRetry /\ [][C30_FailureLeavesBackend]_vars

\* a Create failed after NamespaceExists answered false: the invocation has
\* returned with these two calls and the backend namespace does not exist
C30_Witness ==
  \E n \in Names :
    /\ Done(n) /\ obs[n] = "present"
    /\ Len(calls[n]) = 2
    /\ calls[n][1].op = "Exists" /\ calls[n][1].ok
    /\ calls[n][2].op = "Create" /\ ~calls[n][2].ok
    /\ ~GwExists(vault, PathOf(n))

\* C31 (state part): a Present invocation of a name that is to be synced that
\* is past its check has begun with a NamespaceExists call for its own path.
C31_QueriedEachTime ==
  \A n \in Names :
    (obs[n] = "present" /\ Sync(n) /\ pc[n] \in {"create", "sweep", "done"}) =>
      HasCheck(n)

\* C31 (step part): the answer the handler acts on is the state of the
\* backend at the moment of the call, a namespace that is missing then is
\* created, and a Create that succeeded leaves the namespace in existence.
C31_AnswerIsCurrent ==
  \A n \in Names :
    /\ (pc[n] = "crtExists" /\ pc'[n] # "crtExists" /\ calls'[n] # <<>> /\ calls'[n][1].ok) =>
         /\ calls'[n][1].val = GwExists(vault, PathOf(n))
         /\ pc'[n] = (IF GwExists(vault, PathOf(n)) THEN "sweep" ELSE "create")
    /\ (pc[n] = "create" /\ pc'[n] = "sweep") => GwExists(vault', PathOf(n))

\* C31: existence is asked of the backend in every Present invocation of a
\* name that is to be synced and never remembered, so an invocation that
\* follows the deletion of the backend namespace by another actor calls
\* Create and the namespace exists again.
C31_NoExistenceCache ==
  []C31_QueriedEachTime /\ [][C31_AnswerIsCurrent]_vars

\* with deletion disabled and every backend namespace in existence at the
\* start, one was deleted by another actor and a Present invocation has
\* created it again
C31_Witness ==
  \E n \in Names :
    /\ ~cfg.DeleteVaultNamespaces
    /\ Done(n) /\ obs[n] = "present" /\ Success(n)
    /\ Len(calls[n]) >= 2
    /\ calls[n][1].op = "Exists" /\ calls[n][1].ok /\ ~calls[n][1].val
    /\ calls[n][2].op = "Create" /\ calls[n][2].ok
    /\ GwExists(vault, PathOf(n))

\* ---------------------------------------------------------------------------
\* C32
\* ---------------------------------------------------------------------------

\* the string the format yields before the root is applied
FormattedOf(c, namespaceName) ==
  IF c.NamespaceFormat # <<>> THEN Sprintf(c.NamespaceFormat, namespaceName)
                              ELSE namespaceName

HasDoubleSlash(s) == \E i \in 1..(Len(s) - 1) : s[i] = "/" /\ s[i + 1] = "/"

HasLeadingSlash(s) == s # <<>> /\ s[1] = "/"

\* formatPath was applied and the format yielded the empty string
AppliedToEmptyFormatted ==
  AppliedFormatPath /\ FormattedOf(cfg, app.name) = <<>>

C33_StepKeepsPolicy ==
  /\ cfg'.IncludeNamespaces = cfg.IncludeNamespaces
  /\ cfg'.ExcludeNamespaces = cfg.ExcludeNamespaces
  /\ cfg'.NamespaceFormat = cfg.NamespaceFormat
  /\ cfg'.NamespaceRoot = cfg.NamespaceRoot
  /\ cfg'.DeleteVaultNamespaces = cfg.DeleteVaultNamespaces
  /\ \A n \in Names :
       /\ formatVaultNamespacePath(cfg', n) = formatVaultNamespacePath(cfg, n)
       /\ shouldSyncNamespace(cfg', n) = shouldSyncNamespace(cfg, n)
       /\ \A i \in DOMAIN calls'[n] :
            calls'[n][i].site # "sweep" =>
              calls'[n][i].path = formatVaultNamespacePath(cfg, n)

C33_PureAndReadOnly == [][C33_StepKeepsPolicy]_vars

\* a Present invocation under a format and a root has finished after deriving
\* the path twice, for the existence check and for the creation, and the
\* backend namespace is at that path
C33_Witness ==
  \E n \in Names :
    /\ Done(n)
    /\ cfg.NamespaceRoot # <<>>
    /\ cfg.NamespaceFormat # <<>>
    /\ HasCheck(n)
    /\ \E i \in CallsOf(n, "Create") : calls[n][i].path = PathOf(n) /\ calls[n][i].ok
    /\ GwExists(vault, PathOf(n))

\* ---------------------------------------------------------------------------
\* C34
\* ---------------------------------------------------------------------------

\* the Absent invocation of n has returned, deletion is enabled and its
\* existence check answered true
AbsentFoundExisting(n) ==
  /\ Done(n)
  /\ obs[n] = "absent"
  /\ cfg.DeleteVaultNamespaces
  /\ HasCheck(n)
  /\ Check(n).ok
  /\ Check(n).val

\* C34: the Absent path does not consult the sync policy: with deletion
\* enabled, an invocation for a vanished name always makes the existence check,
\* and when the check answers true Delete(formatPath(name)) is called, also for
\* a name shouldSync rejects.
C34_AbsentIgnoresPolicy ==
  \A n \in Names :
    /\ (Done(n) /\ obs[n] = "absent" /\ cfg.DeleteVaultNamespaces) => HasCheck(n)
    /\ AbsentFoundExisting(n) =>
         \E i \in CallsOf(n, "Delete") : calls[n][i].path = PathOf(n)

\* the backend namespace of kube-system, a name the policy rejects, was
\* deleted by the invocation for the vanished cluster namespace
C34_Witness ==
  /\ ~Sync(NsKube)
  /\ AbsentFoundExisting(NsKube)
  /\ \E i \in CallsOf(NsKube, "Delete") :
       calls[NsKube][i].path = PathOf(NsKube) /\ calls[NsKube][i].ok
  /\ ~GwExists(vault, PathOf(NsKube))

\* ---------------------------------------------------------------------------
\* C35
\* ---------------------------------------------------------------------------

\* C35: periodic re-reconciliation applies only to managed namespaces: a
\* Present invocation that succeeds for a sync-eligible name, whether it
\* created the backend namespace or found it, returns requeueAfter =
\* ReconcileInterval seconds, whereas a skipped Present invocation and every
\* successful Absent invocation return a zero requeueAfter.
C35_RequeueOnlyManaged ==
  \A n \in Names :
    (Done(n) /\ Success(n)) =>
      /\ (obs[n] = "present" /\ Sync(n)) =>
           result[n].requeueAfter = cfg.ReconcileInterval
      /\ (obs[n] = "present" /\ ~Sync(n)) => result[n].requeueAfter = 0
      /\ obs[n] = "absent" => result[n].requeueAfter = 0

\* under a ReconcileInterval of 300 s one Present invocation has created the
\* backend namespace and returned requeueAfter 300, while a successful Absent
\* invocation that deleted one has returned 0
C35_Witness ==
  \E n, m \in Names :
    /\ cfg.ReconcileInterval = 300
    /\ Done(n) /\ Success(n) /\ obs[n] = "present" /\ Sync(n)
    /\ CallsOf(n, "Create") # {}
    /\ result[n].requeueAfter = 300
    /\ Done(m) /\ Success(m) /\ obs[m] = "absent"
    /\ CallsOf(m, "Delete") # {}
    /\ result[m].requeueAfter = 0

\* ---------------------------------------------------------------------------
\* C36
\* ---------------------------------------------------------------------------

\* C36: when reading the cluster namespace fails with an error other than
\* not-found, the invocation makes no Gateway call and returns that error,
\* which is none of CheckFailed, CreationFailed, DeletionFailed, with a zero
\* requeueAfter ...
C36_GetErrorUnclassified ==
  \A n \in Names :
    obs[n] = "error" =>
      /\ Done(n)
      /\ calls[n] = <<>>
      /\ result[n].err = ApiError
      /\ result[n].err # NilError
      /\ Classes(n) = {}
      /\ result[n].requeueAfter = 0

\* ... and only a not-found answer is treated as the Absent observation: the
\* observation becomes Absent only while the cluster has no namespace of that
\* name, and only an Absent observation enters the deletion handler.
C36_OnlyNotFoundIsAbsent ==
  \A n \in Names :
    /\ (obs'[n] = "absent" /\ obs[n] # "absent") => n \notin cluster
    /\ (pc'[n] = "delExists" /\ pc[n] # "delExists") => obs'[n] = "absent"

C36_GetFailure == []C36_GetErrorUnclassified /\ [][C36_OnlyNotFoundIsAbsent]_vars

\* r.Get failed for a name whose cluster namespace is gone while deletion is
\* enabled and its backend namespace exists: the invocation returned the
\* error and the backend namespace is still there
C36_Witness ==
  \E n \in Names :
    /\ obs[n] = "error"
    /\ Done(n)
    /\ result[n].err = ApiError
    /\ n \notin cluster
    /\ cfg.DeleteVaultNamespaces
    /\ GwExists(vault, PathOf(n))

\* ---------------------------------------------------------------------------
\* C37
\* ---------------------------------------------------------------------------

\* LoadConfig read and parsed the file at a non-empty path and returned a
\* configuration
LoadedFromFile ==
  /\ app.fn = "LoadConfig"
  /\ app.path # ""
  /\ app.file.kind = "parsed"
  /\ app.out.err = NilError
  /\ app.out.config # NilConfig

HasSlash(s) == \E i \in DOMAIN s : s[i] = "/"

\* t is path without the '/'s at its two ends
IsTrimOf(t, path) ==
  /\ t # <<>> => (t[1] # "/" /\ t[Len(t)] # "/")
  /\ \E i \in 0..Len(path) :
       /\ i + Len(t) <= Len(path)
       /\ SubSeq(path, i + 1, i + Len(t)) = t
       /\ \A j \in (1..i) \cup ((i + Len(t) + 1)..Len(path)) : path[j] = "/"

\* the call the goroutine has made or has under way, once the operation has
\* issued its request
Requested ==
  \/ ex[Caller].op \in {"CreateNamespace", "DeleteNamespace"}
  \/ ex[Caller].op = "NamespaceExists" /\ ex[Caller].pc = "listed"

\* the split of the path of that call has the three properties: the child has
\* no '/', the parent is empty exactly when the trimmed path has no '/', and
\* parent + "/" + child (the child alone without a parent) is the trimmed path
SplitIsLastSegment ==
  LET s == splitNamespacePath(ex[Caller].path)
      whole == IF s.parent = <<>> THEN s.child ELSE s.parent \o <<"/">> \o s.child
  IN /\ ~HasSlash(s.child)
     /\ IsTrimOf(whole, ex[Caller].path)
     /\ s.parent = <<>> <=> ~HasSlash(whole)

\* the request of that call is scoped by the split of its own path: the
\* namespace it is sent in is the parent, the element it names is the child;
\* and what NamespaceExists answers from a list of keys is whether the
\* namespace the engine knows by that path exists
ScopeIsSplit ==
  LET c == ex[Caller]
      s == splitNamespacePath(c.path)
  IN /\ c.listedIn = s.parent
     /\ c.op \in {"CreateNamespace", "DeleteNamespace"} => c.child = s.child
     /\ (c.op = "NamespaceExists" /\ c.exit \in {"found", "notFound"}) =>
          (c.answer <=> GwExists(vault, c.path))

\* C38 (state part): splitNamespacePath(path) removes leading and trailing
\* '/' and splits at the last remaining '/': the child is the last segment
\* and has no '/', the parent is everything before it (empty when there is no
\* '/'), and parent + "/" + child is the trimmed path; Exists, Create and
\* Delete all take their (parent, child) scope from it.
C38_SplitScopesRequests ==
  Requested => (SplitIsLastSegment /\ ScopeIsSplit)

\* C38 (step part): so the three operations on one path address the same
\* backend namespace: a Create that succeeds brings into existence, and a
\* Delete that succeeds removes, the namespace Exists looks for by that path.
C38_SameBackendNamespace ==
  LET c == ex'[Caller]
  IN (ex' # ex /\ c.op \in {"CreateNamespace", "DeleteNamespace"} /\ ~c.err) =>
       (GwExists(vault', c.path) <=> c.op = "CreateNamespace")

C38_SplitNamespacePath == []C38_SplitScopesRequests /\ [][C38_SameBackendNamespace]_vars

\* NamespaceExists("/parent/child/") lists inside "parent" and finds the
\* child, which only a CreateNamespace on a path with the same split can have
\* put there
C38_Witness ==
  /\ ex[Caller].op = "NamespaceExists"
  /\ ex[Caller].pc = "listed"
  /\ ex[Caller].path = SplitBoth
  /\ ex[Caller].listedIn = <<"p","a","r","e","n","t">>
  /\ ex[Caller].exit = "found"
  /\ ex[Caller].answer

====
